---- MODULE Spec2Model ----
(***************************************************************************)
(* Model of google-slides-server.py: the process-wide slides manager, the  *)
(* create_presentation and add_content_slide tools, the remote calls they  *)
(* issue, and the bullet-range computation of                              *)
(* SlidesManager.add_content_slide.                                        *)
(*                                                                         *)
(* Strings whose characters matter (content, title) are sequences of       *)
(* one-character strings.  A tool invocation is a sequence of steps, each  *)
(* running from the return of one blocking remote call (.execute()) to the *)
(* issue of the next one; remote_log is the list of the remote calls the   *)
(* invocation has issued so far.                                           *)
(***************************************************************************)
EXTENDS Integers, Sequences, FiniteSets, TLC

VARIABLES
    slides_manager,     \* global _slides_manager: NoManager or [presentations |-> name -> id]
    pc,                 \* position of the running tool invocation
    args,               \* arguments of the running tool invocation
    slide_id,           \* add_content_slide: requested slide object id
    created_slide_id,   \* add_content_slide: object id in the createSlide reply
    title_id,           \* add_content_slide: TITLE placeholder id or None
    body_id,            \* add_content_slide: BODY placeholder id or None
    text_requests,      \* add_content_slide: the insertText batch
    lines,              \* add_content_slide: content.strip().split('\n')
    line_i,             \* add_content_slide: 1-based position of the for loop in lines
    current_index,      \* add_content_slide: the offset cursor
    bullet_requests,    \* add_content_slide: the createParagraphBullets batch
    presentation,       \* add_*_slide: the slides read back by presentations().get()
    body_ids,           \* add_two_column_slide: the BODY placeholder ids, in page order
    image_file_id,      \* add_image_slide: id of the uploaded file
    chart_tool,         \* the chart tool that is running, or None
    source_presentation, \* apply_theme_from_presentation: <<reply of presentations().get()>> or <<>>
    files,              \* apply_theme_by_name: <<files of the reply of files().list()>> or <<>>
    caption,            \* add_image_slide: the caption the chart tool passed
    remote_log,         \* remote calls issued by the running invocation, in order
    result              \* outcome of the invocation: returned string or raised error

vars == <<slides_manager, pc, args, slide_id, created_slide_id, title_id, body_id,
          text_requests, lines, line_i, current_index, bullet_requests,
          presentation, body_ids, image_file_id, chart_tool, source_presentation,
          files, caption, remote_log, result>>

locals == <<slide_id, created_slide_id, title_id, body_id, text_requests, lines,
            line_i, current_index, bullet_requests,
            presentation, body_ids, image_file_id, chart_tool, source_presentation,
            files, caption>>

\* the locals of the methods other than add_content_slide
other_locals == <<body_ids, image_file_id, chart_tool, source_presentation, files,
                  caption>>

(***************************************************************************)
(* Bounds and input sets                                                   *)
(***************************************************************************)
MaxLen == 4

NL == "\n"
TAB == "\t"
SP == " "

Alphabet == {"a", SP, TAB, NL}

RECURSIVE StringsOfLen(_)
StringsOfLen(n) ==
    IF n = 0 THEN {<<>>}
    ELSE {Append(s, c) : s \in StringsOfLen(n - 1), c \in Alphabet}

StringsUpTo(n) == UNION {StringsOfLen(k) : k \in 0..n}

\* the content of the specification's worked example, "a\n\tb\nc"
ExampleContent == <<"a", NL, TAB, "b", NL, "c">>

\* a content whose indented line carries trailing white space, "a\n\tb \nc"
IndentedTrailing == <<"a", NL, TAB, "b", SP, NL, "c">>

\* a content with a line of white space between two lines, "a\n \t\na"
WhiteLineBetween == <<"a", NL, SP, TAB, NL, "a">>

Contents == StringsUpTo(MaxLen) \cup {ExampleContent, IndentedTrailing, WhiteLineBetween}

Names == {"deck1", "deck2"}
Titles == {<<"T">>, <<"U">>}
PresentationIds == {"pres_A", "pres_B"}
RemoteErrors == {"HttpError"}
RefreshErrors == {"RefreshError"}

None == "None"
NoManager == [kind |-> "None"]

(***************************************************************************)
(* Python string operations                                                *)
(***************************************************************************)
\* a character test that knows the blank only
IsSpaceBlankOnly(c) == c = SP

\* str.isspace() on the characters of the alphabet
IsSpace(c) == c \in {SP, TAB, NL}

RECURSIVE LStrip(_)
\* str.lstrip()
LStrip(s) ==
    IF s # <<>> /\ IsSpace(Head(s)) THEN LStrip(Tail(s)) ELSE s

RECURSIVE RStrip(_)
\* str.rstrip()
RStrip(s) ==
    IF s # <<>> /\ IsSpace(s[Len(s)]) THEN RStrip(SubSeq(s, 1, Len(s) - 1)) ELSE s

\* str.strip()
Strip(s) == LStrip(RStrip(s))

RECURSIVE SplitFrom(_, _, _)
\* the pieces of s from position i on, cur being the piece under construction
SplitFrom(s, i, cur) ==
    IF i > Len(s) THEN <<cur>>
    ELSE IF s[i] = NL THEN <<cur>> \o SplitFrom(s, i + 1, <<>>)
    ELSE SplitFrom(s, i + 1, Append(cur, s[i]))

\* str.split('\n')
SplitLines(s) == SplitFrom(s, 1, <<>>)

(***************************************************************************)
(* SlidesManager helpers                                                   *)
(***************************************************************************)
\* hashlib.md5(title.encode()).hexdigest()[:10] on the titles of the model
Md5Hex10(title) ==
    CASE title = <<"T">> -> "b9ece18c95"
      [] title = <<"U">> -> "4c614360da"

\* SlidesManager._create_short_id: f"{prefix}_{hash_id}"
CreateShortId(prefix, title) ==
    CASE prefix = "content" /\ Md5Hex10(title) = "b9ece18c95" -> "content_b9ece18c95"
      [] prefix = "content" /\ Md5Hex10(title) = "4c614360da" -> "content_4c614360da"
      [] prefix = "title" /\ Md5Hex10(title) = "b9ece18c95" -> "title_b9ece18c95"
      [] prefix = "title" /\ Md5Hex10(title) = "4c614360da" -> "title_4c614360da"
      [] prefix = "section" /\ Md5Hex10(title) = "b9ece18c95" -> "section_b9ece18c95"
      [] prefix = "section" /\ Md5Hex10(title) = "4c614360da" -> "section_4c614360da"
      [] prefix = "twocol" /\ Md5Hex10(title) = "b9ece18c95" -> "twocol_b9ece18c95"
      [] prefix = "twocol" /\ Md5Hex10(title) = "4c614360da" -> "twocol_4c614360da"
      [] prefix = "table" /\ Md5Hex10(title) = "b9ece18c95" -> "table_b9ece18c95"
      [] prefix = "table" /\ Md5Hex10(title) = "4c614360da" -> "table_4c614360da"
      [] prefix = "img" /\ Md5Hex10(title) = "b9ece18c95" -> "img_b9ece18c95"
      [] prefix = "img" /\ Md5Hex10(title) = "4c614360da" -> "img_4c614360da"

\* the createSlide request of add_content_slide
CreateSlideRequest(sid) ==
    [createSlide |-> [objectId |-> sid,
                      slideLayoutReference |-> [predefinedLayout |-> "TITLE_AND_BODY"]]]

\* an insertText request
InsertTextRequest(oid, text) == [insertText |-> [objectId |-> oid, text |-> text]]

\* a request that also names a nesting level
BulletRequestWithLevel(oid, start, length) ==
    [createParagraphBullets |->
        [objectId |-> oid,
         textRange |-> [type |-> "FIXED_RANGE",
                        startIndex |-> start,
                        endIndex |-> start + length],
         bulletPreset |-> "BULLET_DISC_CIRCLE_SQUARE",
         level |-> 0]]

\* a request whose endIndex is the last character, not one past it
BulletRequestInclusiveEnd(oid, start, length) ==
    [createParagraphBullets |->
        [objectId |-> oid,
         textRange |-> [type |-> "FIXED_RANGE",
                        startIndex |-> start,
                        endIndex |-> start + length - 1],
         bulletPreset |-> "BULLET_DISC_CIRCLE_SQUARE"]]

\* a createParagraphBullets request over [start, start + length)
BulletRequest(oid, start, length) ==
    [createParagraphBullets |->
        [objectId |-> oid,
         textRange |-> [type |-> "FIXED_RANGE",
                        startIndex |-> start,
                        endIndex |-> start + length],
         bulletPreset |-> "BULLET_DISC_CIRCLE_SQUARE"]]

\* the guard of the bullet section: body_id and content.strip()
WantsBullets(bid, content) == bid # None /\ Strip(content) # <<>>

\* the lines the bullet loop iterates over
BulletLines(content) == SplitLines(Strip(content))

\* `not line`: only the empty line is blank
IsBlankLineEmptyOnly(line) == line = <<>>

\* `not line.strip()`
IsBlankLine(line) == Strip(line) = <<>>

\* len(line.strip())
LineLengthStripped(line) == Len(Strip(line))

\* the length of the line counted with its newline character
LineLengthWithNewline(line) == Len(line) + 1

\* line_length = len(line.rstrip())
LineLength(line) == Len(RStrip(line))

\* the cursor moves on blank lines only
NextIndexStuck(cur, line) ==
    IF IsBlankLine(line) THEN cur + Len(line) + 1 ELSE cur

\* the cursor after one iteration of the loop on line
NextIndex(cur, line) ==
    IF IsBlankLine(line) THEN cur + Len(line) + 1
    ELSE cur + LineLength(line) + 1

\* the requests shifted by one when the slide has the second title
NextBulletRequestsByTitle(reqs, bid, cur, line) ==
    IF IsBlankLine(line) THEN reqs
    ELSE Append(reqs, BulletRequest(bid, cur + (IF args.title = <<"U">> THEN 1 ELSE 0),
                                    LineLength(line)))

\* bullet_requests after one iteration of the loop on line
NextBulletRequests(reqs, bid, cur, line) ==
    IF IsBlankLine(line) THEN reqs
    ELSE Append(reqs, BulletRequest(bid, cur, LineLength(line)))

(***************************************************************************)
(* Remote API                                                              *)
(***************************************************************************)
\* a remote call as recorded in remote_log
RemoteCall(api, requests) == [api |-> api, requests |-> requests, status |-> "pending"]

Issue(api, requests) == remote_log' = Append(remote_log, RemoteCall(api, requests))

\* the call stays pending when it has returned
SettledLeavesPending(st) == remote_log

\* the pending call (the last one) returns with status st
Settled(st) == [remote_log EXCEPT ![Len(remote_log)].status = st]

\* the page elements a TITLE_AND_BODY slide may be read back with
TitleElement == [objectId |-> "ph_title", type |-> "TITLE"]
BodyElement == [objectId |-> "ph_body", type |-> "BODY"]
ElementLists == {<<>>, <<TitleElement>>, <<BodyElement>>, <<TitleElement, BodyElement>>}

\* responses of presentations().get(): the slides of the presentation
GetResponses(sid) ==
    {<<>>} \cup {<<[objectId |-> sid, pageElements |-> els]>> : els \in ElementLists}

RECURSIVE FindSlide(_, _)
\* the first slide whose objectId is sid as <<slide>>, or <<>> for None
FindSlide(slides, sid) ==
    IF slides = <<>> THEN <<>>
    ELSE IF Head(slides).objectId = sid THEN <<Head(slides)>>
    ELSE FindSlide(Tail(slides), sid)

RECURSIVE FindPlaceholder(_, _, _)
\* the objectId of the last element whose placeholder type is type, or found
FindPlaceholder(els, type, found) ==
    IF els = <<>> THEN found
    ELSE FindPlaceholder(Tail(els), type,
                         IF Head(els).type = type THEN Head(els).objectId ELSE found)

\* text_requests without the body text
TextRequestsTitleOnly(tid, bid, title, content) ==
    IF tid # None THEN <<InsertTextRequest(tid, title)>> ELSE <<>>

\* text_requests of add_content_slide
TextRequests(tid, bid, title, content) ==
    (IF tid # None THEN <<InsertTextRequest(tid, title)>> ELSE <<>>)
    \o (IF bid # None THEN <<InsertTextRequest(bid, content)>> ELSE <<>>)

(***************************************************************************)
(* Outcomes                                                                *)
(***************************************************************************)
NoResult == [status |-> "none", prefix |-> "", detail |-> ""]
Ok(text) == [status |-> "ok", prefix |-> text, detail |-> ""]
Error(prefix, detail) == [status |-> "error", prefix |-> prefix, detail |-> detail]

NoArgs == [tool |-> "none", presentation_name |-> "", title |-> <<>>, content |-> <<>>]


Init ==
    /\ slides_manager = NoManager
    /\ pc = "idle"
    /\ args = NoArgs
    /\ slide_id = None
    /\ created_slide_id = None
    /\ title_id = None
    /\ body_id = None
    /\ text_requests = <<>>
    /\ lines = <<>>
    /\ line_i = 0
    /\ current_index = 0
    /\ bullet_requests = <<>>
    /\ presentation = <<>>
    /\ body_ids = <<>>
    /\ image_file_id = None
    /\ chart_tool = None
    /\ source_presentation = <<>>
    /\ files = <<>>
    /\ caption = ""
    /\ remote_log = <<>>
    /\ result = NoResult

\* the invocation ends: the tool returns or raises
Finish(r) ==
    /\ pc' = "done"
    /\ result' = r

ContentSlideFailed(detail) == Error("Failed to add content slide: ", detail)
ContentSlideAdded == Ok("Added content slide")

(***************************************************************************)
(* create_presentation tool                                                *)
(***************************************************************************)
\* SlidesManager() fails in _get_credentials
CreatePresentationNoCredentials(name) ==
    /\ pc = "idle"
    /\ args' = [NoArgs EXCEPT !.tool = "create_presentation", !.presentation_name = name]
    /\ Finish(Error("Failed to create presentation: ", "Token file not found"))
    /\ UNCHANGED <<slides_manager, locals, remote_log>>

\* SlidesManager() finds expired credentials with a refresh token and waits
\* in creds.refresh(Request())
CreatePresentationRefresh(name) ==
    /\ pc = "idle"
    /\ args' = [NoArgs EXCEPT !.tool = "create_presentation", !.presentation_name = name]
    /\ pc' = "cp_wait_refresh"
    /\ UNCHANGED <<slides_manager, locals, remote_log, result>>

\* creds.refresh() raises, or returns: the token file is rewritten, the
\* services are built and presentations().create() is issued
CredentialsRefreshed ==
    /\ pc = "cp_wait_refresh"
    /\ \/ \E e \in RefreshErrors :
            /\ Finish(Error("Failed to create presentation: ", e))
            /\ UNCHANGED remote_log
       \/ /\ Issue("presentations.create", <<[title |-> args.presentation_name]>>)
          /\ pc' = "cp_wait_create"
          /\ UNCHANGED result
    /\ UNCHANGED <<slides_manager, args, locals>>

\* SlidesManager() succeeds with credentials that need no refresh and
\* presentations().create() is issued
CreatePresentationCall(name) ==
    /\ pc = "idle"
    /\ args' = [NoArgs EXCEPT !.tool = "create_presentation", !.presentation_name = name]
    /\ Issue("presentations.create", <<[title |-> name]>>)
    /\ pc' = "cp_wait_create"
    /\ UNCHANGED <<slides_manager, locals, result>>

\* presentations().create() returns or raises; the new entry joins the old ones
CreatePresentationReturnsKeeping ==
    /\ pc = "cp_wait_create"
    /\ \/ \E e \in RemoteErrors :
            /\ remote_log' = Settled("failed")
            /\ Finish(Error("Failed to create presentation: ", e))
            /\ UNCHANGED slides_manager
       \/ \E id \in PresentationIds :
            /\ remote_log' = Settled("ok")
            /\ slides_manager' =
                 [kind |-> "SlidesManager",
                  presentations |->
                      IF slides_manager = NoManager
                      THEN [n \in {args.presentation_name} |-> id]
                      ELSE [n \in {args.presentation_name} |-> id]
                           @@ slides_manager.presentations]
            /\ Finish(Ok("Created new presentation"))
    /\ UNCHANGED <<args, locals>>

\* presentations().create() returns or raises; a failure drops the manager
CreatePresentationReturnsForgetting ==
    /\ pc = "cp_wait_create"
    /\ \/ \E e \in RemoteErrors :
            /\ remote_log' = Settled("failed")
            /\ Finish(Error("Failed to create presentation: ", e))
            /\ slides_manager' = NoManager
       \/ \E id \in PresentationIds :
            /\ remote_log' = Settled("ok")
            /\ slides_manager' =
                 [kind |-> "SlidesManager",
                  presentations |-> [n \in {args.presentation_name} |-> id]]
            /\ Finish(Ok("Created new presentation"))
    /\ UNCHANGED <<args, locals>>

\* presentations().create() returns or raises
CreatePresentationReturns ==
    /\ pc = "cp_wait_create"
    /\ \/ \E e \in RemoteErrors :
            /\ remote_log' = Settled("failed")
            /\ Finish(Error("Failed to create presentation: ", e))
            /\ UNCHANGED slides_manager
       \/ \E id \in PresentationIds :
            /\ remote_log' = Settled("ok")
            /\ slides_manager' =
                 [kind |-> "SlidesManager",
                  presentations |-> [n \in {args.presentation_name} |-> id]]
            /\ Finish(Ok("Created new presentation"))
    /\ UNCHANGED <<args, locals>>

(***************************************************************************)
(* add_content_slide tool                                                  *)
(***************************************************************************)
\* the tool is called: manager and name checks, then the createSlide batch
AddContentSlideCall(name, title, content) ==
    /\ pc = "idle"
    /\ args' = [tool |-> "add_content_slide", presentation_name |-> name,
                title |-> title, content |-> content]
    /\ IF slides_manager = NoManager
       THEN /\ Finish(ContentSlideFailed("No active slides manager. Create a presentation first."))
            /\ UNCHANGED <<slide_id, remote_log>>
       ELSE IF name \notin DOMAIN slides_manager.presentations
       THEN /\ Finish(ContentSlideFailed("Presentation not found"))
            /\ UNCHANGED <<slide_id, remote_log>>
       ELSE /\ slide_id' = CreateShortId("content", title)
            /\ Issue("presentations.batchUpdate",
                     <<CreateSlideRequest(CreateShortId("content", title))>>)
            /\ pc' = "cs_wait_create"
            /\ UNCHANGED result
    /\ UNCHANGED <<slides_manager, created_slide_id, title_id, body_id, text_requests,
                   lines, line_i, current_index, bullet_requests>>
    /\ UNCHANGED <<presentation, other_locals>>

\* the createSlide batch returns; presentations().get() is issued
ContentSlideCreated ==
    /\ pc = "cs_wait_create"
    /\ \/ \E e \in RemoteErrors :
            /\ remote_log' = Settled("failed")
            /\ Finish(ContentSlideFailed(e))
            /\ UNCHANGED created_slide_id
       \/ /\ created_slide_id' = slide_id
          /\ remote_log' = Append(Settled("ok"), RemoteCall("presentations.get", <<>>))
          /\ pc' = "cs_wait_get"
          /\ UNCHANGED result
    /\ UNCHANGED <<slides_manager, args, slide_id, title_id, body_id, text_requests,
                   lines, line_i, current_index, bullet_requests>>
    /\ UNCHANGED <<presentation, other_locals>>

\* what follows the insertText batch: the bullet loop starts, or the method returns
AfterText(bid) ==
    IF WantsBullets(bid, args.content)
    THEN /\ lines' = BulletLines(args.content)
         /\ line_i' = 1
         /\ current_index' = 0
         /\ bullet_requests' = <<>>
         /\ pc' = "cs_bullet_loop"
         /\ UNCHANGED result
    ELSE /\ Finish(ContentSlideAdded)
         /\ UNCHANGED <<lines, line_i, current_index, bullet_requests>>

\* presentations().get() returns; placeholders are resolved and the text batch issued
ContentSlideReadBack ==
    /\ pc = "cs_wait_get"
    /\ \/ \E e \in RemoteErrors :
            /\ remote_log' = Settled("failed")
            /\ Finish(ContentSlideFailed(e))
            /\ UNCHANGED <<title_id, body_id, text_requests, presentation>>
       \/ \E slides \in GetResponses(created_slide_id) :
            LET created_slide == FindSlide(slides, created_slide_id)
                found == created_slide # <<>>
                tid == IF found
                       THEN FindPlaceholder(created_slide[1].pageElements, "TITLE", None)
                       ELSE None
                bid == IF found
                       THEN FindPlaceholder(created_slide[1].pageElements, "BODY", None)
                       ELSE None
                reqs == IF found THEN TextRequests(tid, bid, args.title, args.content)
                        ELSE <<>>
            IN  /\ presentation' = slides
                /\ title_id' = tid
                /\ body_id' = bid
                /\ text_requests' = reqs
                /\ IF reqs # <<>>
                   THEN /\ remote_log' = Append(Settled("ok"),
                                                RemoteCall("presentations.batchUpdate", reqs))
                        /\ pc' = "cs_wait_text"
                        /\ UNCHANGED result
                   ELSE /\ remote_log' = Settled("ok")
                        /\ Finish(ContentSlideAdded)
    /\ UNCHANGED <<slides_manager, args, slide_id, created_slide_id,
                   lines, line_i, current_index, bullet_requests>>
    /\ UNCHANGED other_locals

\* the insertText batch returns
ContentSlideTextInserted ==
    /\ pc = "cs_wait_text"
    /\ \/ \E e \in RemoteErrors :
            /\ remote_log' = Settled("failed")
            /\ Finish(ContentSlideFailed(e))
            /\ UNCHANGED <<lines, line_i, current_index, bullet_requests>>
       \/ /\ remote_log' = Settled("ok")
          /\ AfterText(body_id)
    /\ UNCHANGED <<slides_manager, args, slide_id, created_slide_id, title_id, body_id,
                   text_requests>>
    /\ UNCHANGED <<presentation, other_locals>>

\* one iteration of `for line in lines`
ContentSlideBulletLine ==
    /\ pc = "cs_bullet_loop"
    /\ line_i <= Len(lines)
    /\ bullet_requests' = NextBulletRequests(bullet_requests, body_id, current_index,
                                             lines[line_i])
    /\ current_index' = NextIndex(current_index, lines[line_i])
    /\ line_i' = line_i + 1
    /\ UNCHANGED <<slides_manager, pc, args, slide_id, created_slide_id, title_id, body_id,
                   text_requests, lines, remote_log, result>>
    /\ UNCHANGED <<presentation, other_locals>>

\* the loop is over: the bullet batch is issued when it is not empty
ContentSlideBulletsIssued ==
    /\ pc = "cs_bullet_loop"
    /\ line_i > Len(lines)
    /\ IF bullet_requests # <<>>
       THEN /\ Issue("presentations.batchUpdate", bullet_requests)
            /\ pc' = "cs_wait_bullets"
            /\ UNCHANGED result
       ELSE /\ Finish(ContentSlideAdded)
            /\ UNCHANGED remote_log
    /\ UNCHANGED <<slides_manager, args, locals>>

\* the bullet batch returns; on failure the created slide is deleted again
ContentSlideBulletsRolledBack ==
    /\ pc = "cs_wait_bullets"
    /\ \/ \E e \in RemoteErrors :
            /\ remote_log' = Append(Settled("failed"),
                                    RemoteCall("presentations.batchUpdate",
                                               <<[deleteObject |->
                                                    [objectId |-> created_slide_id]]>>))
            /\ Finish(ContentSlideFailed(e))
       \/ /\ remote_log' = Settled("ok")
          /\ Finish(ContentSlideAdded)
    /\ UNCHANGED <<slides_manager, args, locals>>

\* the bullet batch returns
ContentSlideBulletsApplied ==
    /\ pc = "cs_wait_bullets"
    /\ \/ \E e \in RemoteErrors :
            /\ remote_log' = Settled("failed")
            /\ Finish(ContentSlideFailed(e))
       \/ /\ remote_log' = Settled("ok")
          /\ Finish(ContentSlideAdded)
    /\ UNCHANGED <<slides_manager, args, locals>>

(***************************************************************************)
(* What the tools other than add_content_slide share                       *)
(***************************************************************************)
\* `if not _slides_manager`
NoActiveManager == slides_manager = NoManager

\* `presentation_name not in self.presentations`
UnknownPresentation(name) == name \notin DOMAIN slides_manager.presentations

NoManagerMessage == "No active slides manager. Create a presentation first."
NotFoundMessage == "Presentation not found"

\* the arguments of a call of tool on the presentation name with a slide title
ToolArgs(tool, name, title) ==
    [NoArgs EXCEPT !.tool = tool, !.presentation_name = name, !.title = title]

\* a createSlide request with a predefined layout
CreateSlideWithLayout(sid, layout) ==
    [createSlide |-> [objectId |-> sid,
                      slideLayoutReference |-> [predefinedLayout |-> layout]]]

\* responses of presentations().get() for a slide whose page elements are in lists
SlidesReadBack(sid, lists) ==
    {<<>>} \cup {<<[objectId |-> sid, pageElements |-> els]>> : els \in lists}

\* the page elements of the layout as expected, whatever the read-back holds
ElementsOfAssumed(slides, sid) == <<TitleElement>>

\* page elements of the slide sid in the read-back, <<>> when the slide is not there
ElementsOf(slides, sid) ==
    IF FindSlide(slides, sid) = <<>> THEN <<>> ELSE FindSlide(slides, sid)[1].pageElements

\* the checks of a tool without the check of the presentation name
StartSlideUnchecked(name, prefix, id_prefix, title, layout, next_pc) ==
    IF NoActiveManager
    THEN /\ Finish(Error(prefix, NoManagerMessage))
         /\ UNCHANGED <<slide_id, remote_log>>
    ELSE /\ slide_id' = CreateShortId(id_prefix, title)
         /\ Issue("presentations.batchUpdate",
                  <<CreateSlideWithLayout(CreateShortId(id_prefix, title), layout)>>)
         /\ pc' = next_pc
         /\ UNCHANGED result

\* the wrapper checks of a tool that starts with a createSlide batch: no manager,
\* unknown name, or the batch is issued and the method waits at next_pc
StartSlide(name, prefix, id_prefix, title, layout, next_pc) ==
    IF NoActiveManager
    THEN /\ Finish(Error(prefix, NoManagerMessage))
         /\ UNCHANGED <<slide_id, remote_log>>
    ELSE IF UnknownPresentation(name)
    THEN /\ Finish(Error(prefix, NotFoundMessage))
         /\ UNCHANGED <<slide_id, remote_log>>
    ELSE /\ slide_id' = CreateShortId(id_prefix, title)
         /\ Issue("presentations.batchUpdate",
                  <<CreateSlideWithLayout(CreateShortId(id_prefix, title), layout)>>)
         /\ pc' = next_pc
         /\ UNCHANGED result

\* the createSlide batch returns or raises; presentations().get() is issued.
\* The reply names the object id the request asked for: the service creates
\* the slide under the id it is given, or fails.
SlideCreated(prefix, next_pc) ==
    \/ \E e \in RemoteErrors :
         /\ remote_log' = Settled("failed")
         /\ Finish(Error(prefix, e))
         /\ UNCHANGED created_slide_id
    \/ /\ created_slide_id' = slide_id
       /\ remote_log' = Append(Settled("ok"), RemoteCall("presentations.get", <<>>))
       /\ pc' = next_pc
       /\ UNCHANGED result

\* the last remote call of a method returns or raises
LastCallReturns(prefix, added) ==
    \/ \E e \in RemoteErrors :
         /\ remote_log' = Settled("failed")
         /\ Finish(Error(prefix, e))
    \/ /\ remote_log' = Settled("ok")
       /\ Finish(Ok(added))

\* the read-back returned: the text batch is issued when it is not empty
SendText(reqs, prefix, added, next_pc) ==
    IF reqs # <<>>
    THEN /\ remote_log' = Append(Settled("ok"),
                                 RemoteCall("presentations.batchUpdate", reqs))
         /\ pc' = next_pc
         /\ UNCHANGED result
    ELSE /\ remote_log' = Settled("ok")
         /\ Finish(Ok(added))

SubtitleElement == [objectId |-> "ph_subtitle", type |-> "SUBTITLE"]
Body2Element == [objectId |-> "ph_body2", type |-> "BODY"]

Subtitles == {<<>>, <<"s">>}

(***************************************************************************)
(* add_title_slide tool                                                    *)
(***************************************************************************)
TitleSlidePrefix == "Failed to add title slide: "
TitleSlideElements == {<<>>, <<TitleElement>>, <<SubtitleElement>>,
                       <<TitleElement, SubtitleElement>>}

\* text_requests of add_title_slide
TitleSlideText(tid, sub_id, title, subtitle) ==
    (IF tid # None THEN <<InsertTextRequest(tid, title)>> ELSE <<>>)
    \o (IF subtitle # <<>> /\ sub_id # None
        THEN <<InsertTextRequest(sub_id, subtitle)>> ELSE <<>>)

AddTitleSlideCall(name, title, subtitle) ==
    /\ pc = "idle"
    /\ args' = [subtitle |-> subtitle] @@ ToolArgs("add_title_slide", name, title)
    /\ StartSlide(name, TitleSlidePrefix, "title", title, "TITLE", "ts_wait_create")
    /\ UNCHANGED <<slides_manager, created_slide_id, title_id, body_id, text_requests,
                   lines, line_i, current_index, bullet_requests, presentation,
                   other_locals>>

\* the createSlide batch returns or raises; the method then sleeps
TitleSlideCreated ==
    /\ pc = "ts_wait_create"
    /\ \/ \E e \in RemoteErrors :
            /\ remote_log' = Settled("failed")
            /\ Finish(Error(TitleSlidePrefix, e))
            /\ UNCHANGED created_slide_id
       \/ /\ created_slide_id' = slide_id
          /\ remote_log' = Settled("ok")
          /\ pc' = "ts_sleep"
          /\ UNCHANGED result
    /\ UNCHANGED <<slides_manager, args, slide_id, title_id, body_id, text_requests,
                   lines, line_i, current_index, bullet_requests, presentation,
                   other_locals>>

\* time.sleep(1) is over; presentations().get() is issued
TitleSlideSlept ==
    /\ pc = "ts_sleep"
    /\ Issue("presentations.get", <<>>)
    /\ pc' = "ts_wait_get"
    /\ UNCHANGED <<slides_manager, args, locals, result>>

TitleSlideReadBack ==
    /\ pc = "ts_wait_get"
    /\ \/ \E e \in RemoteErrors :
            /\ remote_log' = Settled("failed")
            /\ Finish(Error(TitleSlidePrefix, e))
            /\ UNCHANGED <<title_id, text_requests, presentation>>
       \/ \E slides \in SlidesReadBack(created_slide_id, TitleSlideElements) :
            LET els == ElementsOf(slides, created_slide_id)
                tid == FindPlaceholder(els, "TITLE", None)
                subtitle_id == FindPlaceholder(els, "SUBTITLE", None)
                reqs == TitleSlideText(tid, subtitle_id, args.title, args.subtitle)
            IN  /\ presentation' = slides
                /\ title_id' = tid
                /\ text_requests' = reqs
                /\ SendText(reqs, TitleSlidePrefix, "Added title slide", "ts_wait_text")
    /\ UNCHANGED <<slides_manager, args, slide_id, created_slide_id, body_id,
                   lines, line_i, current_index, bullet_requests, other_locals>>

TitleSlideTextInserted ==
    /\ pc = "ts_wait_text"
    /\ LastCallReturns(TitleSlidePrefix, "Added title slide")
    /\ UNCHANGED <<slides_manager, args, locals>>

(***************************************************************************)
(* add_section_header tool                                                 *)
(***************************************************************************)
SectionPrefix == "Failed to add section header slide: "

\* text_requests of add_section_header_slide
SectionText(tid, bid, header, subtitle) ==
    (IF tid # None THEN <<InsertTextRequest(tid, header)>> ELSE <<>>)
    \o (IF subtitle # <<>> /\ bid # None
        THEN <<InsertTextRequest(bid, subtitle)>> ELSE <<>>)

AddSectionHeaderCall(name, header, subtitle) ==
    /\ pc = "idle"
    /\ args' = [subtitle |-> subtitle] @@ ToolArgs("add_section_header", name, header)
    /\ StartSlide(name, SectionPrefix, "section", header, "SECTION_HEADER", "sh_wait_create")
    /\ UNCHANGED <<slides_manager, created_slide_id, title_id, body_id, text_requests,
                   lines, line_i, current_index, bullet_requests, presentation,
                   other_locals>>

SectionCreated ==
    /\ pc = "sh_wait_create"
    /\ SlideCreated(SectionPrefix, "sh_wait_get")
    /\ UNCHANGED <<slides_manager, args, slide_id, title_id, body_id, text_requests,
                   lines, line_i, current_index, bullet_requests, presentation,
                   other_locals>>

SectionReadBack ==
    /\ pc = "sh_wait_get"
    /\ \/ \E e \in RemoteErrors :
            /\ remote_log' = Settled("failed")
            /\ Finish(Error(SectionPrefix, e))
            /\ UNCHANGED <<title_id, body_id, text_requests, presentation>>
       \/ \E slides \in SlidesReadBack(created_slide_id, ElementLists) :
            LET els == ElementsOf(slides, created_slide_id)
                tid == FindPlaceholder(els, "TITLE", None)
                bid == FindPlaceholder(els, "BODY", None)
                reqs == SectionText(tid, bid, args.title, args.subtitle)
            IN  /\ presentation' = slides
                /\ title_id' = tid
                /\ body_id' = bid
                /\ text_requests' = reqs
                /\ SendText(reqs, SectionPrefix, "Added section header slide", "sh_wait_text")
    /\ UNCHANGED <<slides_manager, args, slide_id, created_slide_id,
                   lines, line_i, current_index, bullet_requests, other_locals>>

SectionTextInserted ==
    /\ pc = "sh_wait_text"
    /\ LastCallReturns(SectionPrefix, "Added section header slide")
    /\ UNCHANGED <<slides_manager, args, locals>>

(***************************************************************************)
(* add_two_column_slide tool                                               *)
(***************************************************************************)
TwoColumnPrefix == "Failed to add two-column slide: "
TwoColumnElements == {<<>>, <<TitleElement>>, <<TitleElement, BodyElement>>,
                      <<BodyElement, Body2Element>>,
                      <<TitleElement, BodyElement, Body2Element>>}

\* the column texts of the model
LeftTitle == <<"L">>
LeftContent == <<"a", NL, TAB, "b">>
RightTitle == <<"R">>
RightContent == <<"c">>

RECURSIVE PlaceholdersOf(_, _)
\* the objectIds of the elements whose placeholder type is type, in page order
PlaceholdersOf(els, type) ==
    IF els = <<>> THEN <<>>
    ELSE (IF Head(els).type = type THEN <<Head(els).objectId>> ELSE <<>>)
         \o PlaceholdersOf(Tail(els), type)

\* f"{left_title}\n{left_content}"
ColumnText(col_title, col_content) == col_title \o <<NL>> \o col_content

\* text_requests of add_two_column_slide
TwoColumnText(tid, bids, a) ==
    (IF tid # None THEN <<InsertTextRequest(tid, a.title)>> ELSE <<>>)
    \o (IF Len(bids) > 0
        THEN <<InsertTextRequest(bids[1], ColumnText(a.left_title, a.left_content))>>
        ELSE <<>>)
    \o (IF Len(bids) > 1
        THEN <<InsertTextRequest(bids[2], ColumnText(a.right_title, a.right_content))>>
        ELSE <<>>)

AddTwoColumnSlideCall(name, title) ==
    /\ pc = "idle"
    /\ args' = [left_title |-> LeftTitle, left_content |-> LeftContent,
                right_title |-> RightTitle, right_content |-> RightContent]
               @@ ToolArgs("add_two_column_slide", name, title)
    /\ StartSlide(name, TwoColumnPrefix, "twocol", title, "TITLE_AND_TWO_COLUMNS",
                  "tc_wait_create")
    /\ UNCHANGED <<slides_manager, created_slide_id, title_id, body_id, text_requests,
                   lines, line_i, current_index, bullet_requests, presentation,
                   other_locals>>

TwoColumnCreated ==
    /\ pc = "tc_wait_create"
    /\ SlideCreated(TwoColumnPrefix, "tc_wait_get")
    /\ UNCHANGED <<slides_manager, args, slide_id, title_id, body_id, text_requests,
                   lines, line_i, current_index, bullet_requests, presentation,
                   other_locals>>

TwoColumnReadBack ==
    /\ pc = "tc_wait_get"
    /\ \/ \E e \in RemoteErrors :
            /\ remote_log' = Settled("failed")
            /\ Finish(Error(TwoColumnPrefix, e))
            /\ UNCHANGED <<title_id, body_ids, text_requests, presentation>>
       \/ \E slides \in SlidesReadBack(created_slide_id, TwoColumnElements) :
            LET els == ElementsOf(slides, created_slide_id)
                tid == FindPlaceholder(els, "TITLE", None)
                bids == PlaceholdersOf(els, "BODY")
                reqs == TwoColumnText(tid, bids, args)
            IN  /\ presentation' = slides
                /\ title_id' = tid
                /\ body_ids' = bids
                /\ text_requests' = reqs
                /\ SendText(reqs, TwoColumnPrefix, "Added two-column slide", "tc_wait_text")
    /\ UNCHANGED <<slides_manager, args, slide_id, created_slide_id, body_id,
                   lines, line_i, current_index, bullet_requests,
                   image_file_id, chart_tool, source_presentation, files, caption>>

TwoColumnTextInserted ==
    /\ pc = "tc_wait_text"
    /\ LastCallReturns(TwoColumnPrefix, "Added two-column slide")
    /\ UNCHANGED <<slides_manager, args, locals>>

(***************************************************************************)
(* add_table_slide tool                                                    *)
(***************************************************************************)
TablePrefix == "Failed to add table slide: "
TableElements == {<<>>, <<TitleElement>>}

MaxRows == 2
MaxCols == 2
HeaderNames == <<"A", "B", "C", "D">>
Cell == "x"

\* the header lists and row lists a caller may put into data
HeaderLists == {SubSeq(HeaderNames, 1, n) : n \in 0..MaxCols}
RowsOfCells == UNION {[1..n -> {Cell}] : n \in 0..MaxCols}
RowLists == UNION {[1..n -> RowsOfCells] : n \in 0..MaxRows}

\* the data dictionaries of the model: each key present or absent
TableData ==
    {[keys |-> ks, headers |-> h, rows |-> r] :
        ks \in SUBSET {"headers", "rows"}, h \in HeaderLists, r \in RowLists}

\* data.get(key, [])
DataGet(data, key) == IF key \in data.keys THEN data[key] ELSE <<>>

\* all(len(row) == len(headers) for row in rows)
RowsMatchHeaders(headers, rows) ==
    \A i \in 1..Len(rows) : Len(rows[i]) = Len(headers)

\* the validation without the check of the row lengths
TableValidationNoRowCheck(data) ==
    IF DataGet(data, "headers") = <<>> THEN "Table headers are required"
    ELSE IF DataGet(data, "rows") = <<>> THEN "Table rows are required"
    ELSE "valid"

\* the checks of the tool on data, in the order of the code: the message
\* raised, or "valid"
TableValidation(data) ==
    IF DataGet(data, "headers") = <<>> THEN "Table headers are required"
    ELSE IF DataGet(data, "rows") = <<>> THEN "Table rows are required"
    ELSE IF ~RowsMatchHeaders(DataGet(data, "headers"), DataGet(data, "rows"))
    THEN "All rows must have the same number of columns as headers"
    ELSE "valid"

\* f'{slide_id}_tbl'
TableId(sid) ==
    CASE sid = "table_b9ece18c95" -> "table_b9ece18c95_tbl"
      [] sid = "table_4c614360da" -> "table_4c614360da_tbl"

CreateTableRequest(sid, headers, rows) ==
    [createTable |-> [objectId |-> TableId(sid),
                      elementProperties |-> [pageObjectId |-> sid],
                      rows |-> Len(rows) + 1,
                      columns |-> Len(headers)]]

CellInsertText(tid, row, col, text) ==
    [insertText |-> [objectId |-> tid,
                     cellLocation |-> [rowIndex |-> row, columnIndex |-> col],
                     text |-> text]]

CellBold(tid, row, col) ==
    [updateTextStyle |-> [objectId |-> tid,
                          cellLocation |-> [rowIndex |-> row, columnIndex |-> col],
                          style |-> [bold |-> TRUE], fields |-> "bold"]]

\* header_requests: for each header its text, then its bold style
HeaderRequests(tid, headers) ==
    [k \in 1..(2 * Len(headers)) |->
        IF k % 2 = 1 THEN CellInsertText(tid, 0, (k - 1) \div 2, headers[(k + 1) \div 2])
        ELSE CellBold(tid, 0, (k - 2) \div 2)]

\* the requests of one data row, written one row further down
RowRequestsShifted(tid, i, row) ==
    [j \in 1..Len(row) |-> CellInsertText(tid, i + 1, j - 1, row[j])]

\* the requests of one data row
RowRequests(tid, i, row) ==
    [j \in 1..Len(row) |-> CellInsertText(tid, i, j - 1, row[j])]

RECURSIVE DataRequestsFrom(_, _, _)
\* data_requests for the rows from the i-th on
DataRequestsFrom(tid, rows, i) ==
    IF i > Len(rows) THEN <<>>
    ELSE RowRequests(tid, i, rows[i]) \o DataRequestsFrom(tid, rows, i + 1)

DataRequests(tid, rows) == DataRequestsFrom(tid, rows, 1)

TableAdded == Ok("Added table slide")

AddTableSlideCall(name, title, data) ==
    /\ pc = "idle"
    /\ args' = [data |-> data] @@ ToolArgs("add_table_slide", name, title)
    /\ IF ~NoActiveManager /\ TableValidation(data) # "valid"
       THEN /\ Finish(Error(TablePrefix, TableValidation(data)))
            /\ UNCHANGED <<slide_id, remote_log>>
       ELSE StartSlide(name, TablePrefix, "table", title, "TITLE_ONLY", "tb_wait_create")
    /\ UNCHANGED <<slides_manager, created_slide_id, title_id, body_id, text_requests,
                   lines, line_i, current_index, bullet_requests, presentation,
                   other_locals>>

TableSlideCreated ==
    /\ pc = "tb_wait_create"
    /\ SlideCreated(TablePrefix, "tb_wait_get")
    /\ UNCHANGED <<slides_manager, args, slide_id, title_id, body_id, text_requests,
                   lines, line_i, current_index, bullet_requests, presentation,
                   other_locals>>

\* the createTable batch is issued after the call before it returned
IssueCreateTable ==
    /\ remote_log' = Append(Settled("ok"),
                            RemoteCall("presentations.batchUpdate",
                                       <<CreateTableRequest(slide_id,
                                                            DataGet(args.data, "headers"),
                                                            DataGet(args.data, "rows"))>>))
    /\ pc' = "tb_wait_table"
    /\ UNCHANGED result

TableSlideReadBack ==
    /\ pc = "tb_wait_get"
    /\ \/ \E e \in RemoteErrors :
            /\ remote_log' = Settled("failed")
            /\ Finish(Error(TablePrefix, e))
            /\ UNCHANGED <<title_id, presentation>>
       \/ \E slides \in SlidesReadBack(created_slide_id, TableElements) :
            LET tid == FindPlaceholder(ElementsOf(slides, created_slide_id), "TITLE", None)
            IN  /\ presentation' = slides
                /\ title_id' = tid
                /\ IF tid # None
                   THEN /\ remote_log' =
                             Append(Settled("ok"),
                                    RemoteCall("presentations.batchUpdate",
                                               <<InsertTextRequest(tid, args.title)>>))
                        /\ pc' = "tb_wait_title"
                        /\ UNCHANGED result
                   ELSE IssueCreateTable
    /\ UNCHANGED <<slides_manager, args, slide_id, created_slide_id, body_id,
                   text_requests, lines, line_i, current_index, bullet_requests,
                   other_locals>>

TableTitleInserted ==
    /\ pc = "tb_wait_title"
    /\ \/ \E e \in RemoteErrors :
            /\ remote_log' = Settled("failed")
            /\ Finish(Error(TablePrefix, e))
       \/ IssueCreateTable
    /\ UNCHANGED <<slides_manager, args, locals>>

\* the data batch is issued when it is not empty, else the method returns
IssueDataRows ==
    LET reqs == DataRequests(TableId(slide_id), DataGet(args.data, "rows"))
    IN  IF reqs # <<>>
        THEN /\ remote_log' = Append(Settled("ok"),
                                     RemoteCall("presentations.batchUpdate", reqs))
             /\ pc' = "tb_wait_data"
             /\ UNCHANGED result
        ELSE /\ remote_log' = Settled("ok")
             /\ Finish(TableAdded)

TableCreated ==
    /\ pc = "tb_wait_table"
    /\ \/ \E e \in RemoteErrors :
            /\ remote_log' = Settled("failed")
            /\ Finish(Error(TablePrefix, e))
       \/ LET reqs == HeaderRequests(TableId(slide_id), DataGet(args.data, "headers"))
          IN  IF reqs # <<>>
              THEN /\ remote_log' = Append(Settled("ok"),
                                           RemoteCall("presentations.batchUpdate", reqs))
                   /\ pc' = "tb_wait_header"
                   /\ UNCHANGED result
              ELSE IssueDataRows
    /\ UNCHANGED <<slides_manager, args, locals>>

TableHeaderFilled ==
    /\ pc = "tb_wait_header"
    /\ \/ \E e \in RemoteErrors :
            /\ remote_log' = Settled("failed")
            /\ Finish(Error(TablePrefix, e))
       \/ IssueDataRows
    /\ UNCHANGED <<slides_manager, args, locals>>

TableDataFilled ==
    /\ pc = "tb_wait_data"
    /\ LastCallReturns(TablePrefix, "Added table slide")
    /\ UNCHANGED <<slides_manager, args, locals>>

(***************************************************************************)
(* get_presentation_url tool                                               *)
(***************************************************************************)
UrlPrefix == "Failed to get presentation URL: "

\* the URL of one fixed presentation, whatever the id
PresentationUrlFixed(id) ==
    "https://docs.google.com/presentation/d/pres_A/edit"

\* f"https://docs.google.com/presentation/d/{presentation_id}/edit"
PresentationUrl(id) ==
    CASE id = "pres_A" -> "https://docs.google.com/presentation/d/pres_A/edit"
      [] id = "pres_B" -> "https://docs.google.com/presentation/d/pres_B/edit"

GetPresentationUrl(name) ==
    /\ pc = "idle"
    /\ args' = ToolArgs("get_presentation_url", name, <<>>)
    /\ IF NoActiveManager THEN Finish(Error(UrlPrefix, NoManagerMessage))
       ELSE IF UnknownPresentation(name) THEN Finish(Error(UrlPrefix, NotFoundMessage))
       ELSE Finish([status |-> "ok", prefix |-> "Presentation URL: ",
                    detail |-> PresentationUrl(slides_manager.presentations[name])])
    /\ UNCHANGED <<slides_manager, locals, remote_log>>

(***************************************************************************)
(* Chart tools and SlidesManager.add_image_slide                           *)
(***************************************************************************)
SampleTool == "create_chart_from_sample_data"
SamplePrefix == "Failed to create chart from sample data: "

ChartTools == {"create_bar_chart", "create_line_plot", "create_pie_chart",
               "create_scatter_plot", "create_heatmap", "create_histogram",
               "create_scatter_matrix"}

\* the prefix of the except clause of a chart tool
ChartPrefix(tool) ==
    CASE tool = "create_bar_chart" -> "Failed to add bar chart slide: "
      [] tool = "create_line_plot" -> "Failed to add line plot slide: "
      [] tool = "create_pie_chart" -> "Failed to add pie chart slide: "
      [] tool = "create_scatter_plot" -> "Failed to add scatter plot slide: "
      [] tool = "create_heatmap" -> "Failed to add heatmap slide: "
      [] tool = "create_histogram" -> "Failed to add histogram slide: "
      [] tool = "create_scatter_matrix" -> "Failed to add scatter matrix slide: "

\* the default values of chart_title, x_label and y_label in the signature of
\* each chart tool (a tool has the labels its signature names)
DefaultLabels(tool) ==
    CASE tool = "create_bar_chart" ->
           [chart_title |-> "Bar Chart", x_label |-> "Categories", y_label |-> "Values"]
      [] tool = "create_line_plot" ->
           [chart_title |-> "Line Plot", x_label |-> "X Axis", y_label |-> "Y Axis"]
      [] tool = "create_pie_chart" -> [chart_title |-> "Pie Chart"]
      [] tool = "create_scatter_plot" ->
           [chart_title |-> "Scatter Plot", x_label |-> "X Axis", y_label |-> "Y Axis"]
      [] tool = "create_heatmap" -> [chart_title |-> "Heatmap"]
      [] tool = "create_histogram" ->
           [chart_title |-> "Histogram", x_label |-> "Values", y_label |-> "Count"]
      [] tool = "create_scatter_matrix" -> [chart_title |-> "Scatter Matrix"]

\* labels a caller gives instead of the defaults
GivenLabels(tool) ==
    IF "x_label" \in DOMAIN DefaultLabels(tool)
    THEN [chart_title |-> "Shares", x_label |-> "Month", y_label |-> "Sales"]
    ELSE [chart_title |-> "Shares"]

\* the labels a chart tool is called with
ChartLabels(tool) == {DefaultLabels(tool), GivenLabels(tool)}

\* the caption a chart tool passes to add_image_slide: an f-string over the
\* labels of the call
ChartCaption(tool, labels) ==
    CASE tool = "create_bar_chart" ->
           (CASE labels.y_label = "Values" /\ labels.x_label = "Categories" ->
                   "Chart showing Values by Categories"
              [] labels.y_label = "Sales" /\ labels.x_label = "Month" ->
                   "Chart showing Sales by Month")
      [] tool = "create_line_plot" ->
           (CASE labels.y_label = "Y Axis" /\ labels.x_label = "X Axis" ->
                   "Chart showing Y Axis vs X Axis"
              [] labels.y_label = "Sales" /\ labels.x_label = "Month" ->
                   "Chart showing Sales vs Month")
      [] tool = "create_pie_chart" ->
           (CASE labels.chart_title = "Pie Chart" ->
                   "Pie chart showing distribution of Pie Chart"
              [] labels.chart_title = "Shares" ->
                   "Pie chart showing distribution of Shares"
              [] labels.chart_title = "Pie Chart of Categories Data" ->
                   "Pie chart showing distribution of Pie Chart of Categories Data")
      [] tool = "create_scatter_plot" ->
           (CASE labels.x_label = "X Axis" /\ labels.y_label = "Y Axis" ->
                   "Scatter plot showing relationship between X Axis and Y Axis"
              [] labels.x_label = "Month" /\ labels.y_label = "Sales" ->
                   "Scatter plot showing relationship between Month and Sales")
      [] tool = "create_heatmap" ->
           (CASE labels.chart_title = "Heatmap" -> "Heatmap visualization of Heatmap"
              [] labels.chart_title = "Shares" -> "Heatmap visualization of Shares")
      [] tool = "create_histogram" ->
           (CASE labels.x_label = "Values" -> "Histogram showing distribution of Values"
              [] labels.x_label = "Month" -> "Histogram showing distribution of Month")
      [] tool = "create_scatter_matrix" ->
           "Scatter matrix showing relationships between variables"

\* the confirmation a chart tool returns
ChartAdded(tool) ==
    CASE tool = "create_bar_chart" -> "Added bar chart slide"
      [] tool = "create_line_plot" -> "Added line plot slide"
      [] tool = "create_pie_chart" -> "Added pie chart slide"
      [] tool = "create_scatter_plot" -> "Added scatter plot slide"
      [] tool = "create_heatmap" -> "Added heatmap slide"
      [] tool = "create_histogram" -> "Added histogram slide"
      [] tool = "create_scatter_matrix" -> "Added scatter matrix slide"

\* the re-raised error without the prefix of the inner except clause
WrappedFlat(prefix, r) == Error(prefix, r.detail)

\* an error raised inside the except clause of a tool whose try block received
\* the error r of an inner except clause: f"{prefix}{str(e)}"
Wrapped(prefix, r) ==
    [status |-> "error", prefix |-> prefix, inner |-> r.prefix, detail |-> r.detail]

\* the error the caller of the tool outer sees when the chart tool raises detail
ChartError(outer, tool, detail) ==
    IF outer = SampleTool
    THEN Wrapped(SamplePrefix, Error(ChartPrefix(tool), detail))
    ELSE Error(ChartPrefix(tool), detail)

MaxPoints == 2
\* the lists of numbers of the model
Lists == UNION {[1..n -> {1}] : n \in 0..MaxPoints}
\* the column lists of a scatter matrix: the values of its data dictionary
Columns == UNION {[1..n -> Lists] : n \in 0..2}
RenderErrors == {"RenderError"}
DriveFileIds == {"file_1", "file_2"}

\* the check that compares nothing
LengthMismatchIgnored(a, b, message) == ""

\* len(a) != len(b) raises message
LengthMismatch(a, b, message) == IF Len(a) # Len(b) THEN message ELSE ""

\* the check of a tool with two paired lists: the message raised, or ""
PairedListsError(a, b, message) == LengthMismatch(a, b, message)

\* len(set(len(values) for values in data.values())) != 1
ColumnsError(cols) ==
    IF Cardinality({Len(cols[i]) : i \in 1..Len(cols)}) # 1
    THEN "All data lists must have the same length" ELSE ""

\* f'img_{title.replace(" ", "_")[:20]}.png'
ImageFileName(title) ==
    CASE title = <<"T">> -> "img_T.png"
      [] title = <<"U">> -> "img_U.png"

\* the URL of one file whatever was uploaded
ImageUrlFixed(fid) == "https://drive.google.com/uc?id=file_1"

\* f'https://drive.google.com/uc?id={image_file_id}'
ImageUrl(fid) ==
    CASE fid = "file_1" -> "https://drive.google.com/uc?id=file_1"
      [] fid = "file_2" -> "https://drive.google.com/uc?id=file_2"

\* f'{slide_id}_i'
ImageId(sid) ==
    CASE sid = "img_b9ece18c95" -> "img_b9ece18c95_i"
      [] sid = "img_4c614360da" -> "img_4c614360da_i"

\* f'{slide_id}_c'
CaptionId(sid) ==
    CASE sid = "img_b9ece18c95" -> "img_b9ece18c95_c"
      [] sid = "img_4c614360da" -> "img_4c614360da_c"

UploadRequest(title) == [name |-> ImageFileName(title), mimetype |-> "image/png"]

PermissionRequest(fid) == [fileId |-> fid, type |-> "anyone", role |-> "reader"]

CreateImageRequest(sid, created, fid) ==
    [createImage |-> [objectId |-> ImageId(sid), url |-> ImageUrl(fid),
                      elementProperties |-> [pageObjectId |-> created]]]

CaptionRequests(sid, created, text) ==
    <<[createShape |-> [objectId |-> CaptionId(sid), shapeType |-> "TEXT_BOX",
                        elementProperties |-> [pageObjectId |-> created]]],
      InsertTextRequest(CaptionId(sid), text)>>

\* the body of a chart tool with the input check ahead of the manager check
ChartToolBodyInputFirst(outer, tool, name, title, input_error, labels) ==
    /\ chart_tool' = tool
    /\ IF input_error # ""
       THEN /\ Finish(ChartError(outer, tool, input_error))
            /\ UNCHANGED <<remote_log, caption>>
       ELSE IF NoActiveManager
       THEN /\ Finish(ChartError(outer, tool, NoManagerMessage))
            /\ UNCHANGED <<remote_log, caption>>
       ELSE \/ \E e \in RenderErrors :
                 /\ Finish(ChartError(outer, tool, e))
                 /\ UNCHANGED <<remote_log, caption>>
            \/ IF UnknownPresentation(name)
               THEN /\ Finish(ChartError(outer, tool, NotFoundMessage))
                    /\ UNCHANGED <<remote_log, caption>>
               ELSE /\ caption' = ChartCaption(tool, labels)
                    /\ Issue("drive.files.create", <<UploadRequest(title)>>)
                    /\ pc' = "im_wait_upload"
                    /\ UNCHANGED result
    /\ UNCHANGED <<slides_manager, slide_id, created_slide_id, title_id, body_id,
                   text_requests, lines, line_i, current_index, bullet_requests,
                   presentation, body_ids, image_file_id, source_presentation, files>>

\* the body of a chart tool called by outer (the tool itself or the sample
\* data tool) with labels: manager check, input check, rendering, then
\* add_image_slide up to its first remote call
ChartToolBody(outer, tool, name, title, input_error, labels) ==
    /\ chart_tool' = tool
    /\ IF NoActiveManager
       THEN /\ Finish(ChartError(outer, tool, NoManagerMessage))
            /\ UNCHANGED <<remote_log, caption>>
       ELSE IF input_error # ""
       THEN /\ Finish(ChartError(outer, tool, input_error))
            /\ UNCHANGED <<remote_log, caption>>
       ELSE \/ \E e \in RenderErrors :
                 /\ Finish(ChartError(outer, tool, e))
                 /\ UNCHANGED <<remote_log, caption>>
            \/ IF UnknownPresentation(name)
               THEN /\ Finish(ChartError(outer, tool, NotFoundMessage))
                    /\ UNCHANGED <<remote_log, caption>>
               ELSE /\ caption' = ChartCaption(tool, labels)
                    /\ Issue("drive.files.create", <<UploadRequest(title)>>)
                    /\ pc' = "im_wait_upload"
                    /\ UNCHANGED result
    /\ UNCHANGED <<slides_manager, slide_id, created_slide_id, title_id, body_id,
                   text_requests, lines, line_i, current_index, bullet_requests,
                   presentation, body_ids, image_file_id, source_presentation, files>>

CreateBarChart(name, title, categories, values, lab) ==
    /\ pc = "idle"
    /\ args' = [categories |-> categories, values |-> values] @@ lab
               @@ ToolArgs("create_bar_chart", name, title)
    /\ ChartToolBody("create_bar_chart", "create_bar_chart", name, title,
                     PairedListsError(categories, values,
                                      "categories and values must have the same length"), lab)

CreateLinePlot(name, title, x_values, y_values, lab) ==
    /\ pc = "idle"
    /\ args' = [x_values |-> x_values, y_values |-> y_values] @@ lab
               @@ ToolArgs("create_line_plot", name, title)
    /\ ChartToolBody("create_line_plot", "create_line_plot", name, title,
                     PairedListsError(x_values, y_values,
                                      "x_values and y_values must have the same length"), lab)

CreatePieChart(name, title, labels, values, lab) ==
    /\ pc = "idle"
    /\ args' = [labels |-> labels, values |-> values] @@ lab
               @@ ToolArgs("create_pie_chart", name, title)
    /\ ChartToolBody("create_pie_chart", "create_pie_chart", name, title,
                     PairedListsError(labels, values,
                                      "labels and values must have the same length"), lab)

CreateScatterPlot(name, title, x_values, y_values, lab) ==
    /\ pc = "idle"
    /\ args' = [x_values |-> x_values, y_values |-> y_values] @@ lab
               @@ ToolArgs("create_scatter_plot", name, title)
    /\ ChartToolBody("create_scatter_plot", "create_scatter_plot", name, title,
                     PairedListsError(x_values, y_values,
                                      "x_values and y_values must have the same length"), lab)

CreateHeatmap(name, title, matrix, lab) ==
    /\ pc = "idle"
    /\ args' = [matrix |-> matrix] @@ lab
               @@ ToolArgs("create_heatmap", name, title)
    /\ ChartToolBody("create_heatmap", "create_heatmap", name, title,
                     "", lab)

CreateHistogram(name, title, values, lab) ==
    /\ pc = "idle"
    /\ args' = [values |-> values] @@ lab
               @@ ToolArgs("create_histogram", name, title)
    /\ ChartToolBody("create_histogram", "create_histogram", name, title,
                     "", lab)

CreateScatterMatrix(name, title, data, lab) ==
    /\ pc = "idle"
    /\ args' = [data |-> data] @@ lab
               @@ ToolArgs("create_scatter_matrix", name, title)
    /\ ChartToolBody("create_scatter_matrix", "create_scatter_matrix", name, title,
                     ColumnsError(data), lab)

\* the error of the running invocation when add_image_slide raises detail
ImageSlideError(detail) == ChartError(args.tool, chart_tool, detail)

\* a remote call of add_image_slide raises
ImageCallFails ==
    \E e \in RemoteErrors :
        /\ remote_log' = Settled("failed")
        /\ Finish(ImageSlideError(e))

\* the pending call returned and the next one of add_image_slide is issued
ImageNextCall(api, requests, next_pc) ==
    /\ remote_log' = Append(Settled("ok"), RemoteCall(api, requests))
    /\ pc' = next_pc
    /\ UNCHANGED result

\* files().create() returns the id of the uploaded file; permissions().create()
ImageUploaded ==
    /\ pc = "im_wait_upload"
    /\ \/ ImageCallFails /\ UNCHANGED image_file_id
       \/ \E fid \in DriveFileIds :
            /\ image_file_id' = fid
            /\ ImageNextCall("drive.permissions.create", <<PermissionRequest(fid)>>,
                             "im_wait_permission")
    /\ UNCHANGED <<slides_manager, args, slide_id, created_slide_id, title_id, body_id,
                   text_requests, lines, line_i, current_index, bullet_requests,
                   presentation, body_ids, chart_tool, source_presentation, files,
                   caption>>

\* the file is readable by anyone; the createSlide batch
ImagePermitted ==
    /\ pc = "im_wait_permission"
    /\ \/ ImageCallFails /\ UNCHANGED slide_id
       \/ /\ slide_id' = CreateShortId("img", args.title)
          /\ ImageNextCall("presentations.batchUpdate",
                           <<CreateSlideWithLayout(CreateShortId("img", args.title),
                                                   "TITLE_ONLY")>>,
                           "im_wait_create")
    /\ UNCHANGED <<slides_manager, args, created_slide_id, title_id, body_id,
                   text_requests, lines, line_i, current_index, bullet_requests,
                   presentation, other_locals>>

ImageSlideCreated ==
    /\ pc = "im_wait_create"
    /\ \/ ImageCallFails /\ UNCHANGED created_slide_id
       \/ /\ created_slide_id' = slide_id
          /\ ImageNextCall("presentations.get", <<>>, "im_wait_get")
    /\ UNCHANGED <<slides_manager, args, slide_id, title_id, body_id,
                   text_requests, lines, line_i, current_index, bullet_requests,
                   presentation, other_locals>>

\* the createImage batch of add_image_slide
IssueCreateImage ==
    ImageNextCall("presentations.batchUpdate",
                  <<CreateImageRequest(slide_id, created_slide_id, image_file_id)>>,
                  "im_wait_image")

ImageSlideReadBack ==
    /\ pc = "im_wait_get"
    /\ \/ ImageCallFails /\ UNCHANGED <<title_id, presentation>>
       \/ \E slides \in SlidesReadBack(created_slide_id, TableElements) :
            LET tid == FindPlaceholder(ElementsOf(slides, created_slide_id), "TITLE", None)
            IN  /\ presentation' = slides
                /\ title_id' = tid
                /\ IF tid # None
                   THEN ImageNextCall("presentations.batchUpdate",
                                      <<InsertTextRequest(tid, args.title)>>,
                                      "im_wait_title")
                   ELSE IssueCreateImage
    /\ UNCHANGED <<slides_manager, args, slide_id, created_slide_id, body_id,
                   text_requests, lines, line_i, current_index, bullet_requests,
                   other_locals>>

ImageTitleInserted ==
    /\ pc = "im_wait_title"
    /\ \/ ImageCallFails
       \/ IssueCreateImage
    /\ UNCHANGED <<slides_manager, args, locals>>

\* the image is on the slide; the caption batch when the caption is not empty
ImageCreated ==
    /\ pc = "im_wait_image"
    /\ \/ ImageCallFails
       \/ IF caption # ""
          THEN ImageNextCall("presentations.batchUpdate",
                             CaptionRequests(slide_id, created_slide_id, caption),
                             "im_wait_caption")
          ELSE /\ remote_log' = Settled("ok")
               /\ Finish(Ok(ChartAdded(chart_tool)))
    /\ UNCHANGED <<slides_manager, args, locals>>

CaptionAdded ==
    /\ pc = "im_wait_caption"
    /\ \/ ImageCallFails
       \/ /\ remote_log' = Settled("ok")
          /\ Finish(Ok(ChartAdded(chart_tool)))
    /\ UNCHANGED <<slides_manager, args, locals>>

(***************************************************************************)
(* generate_sample_data and create_chart_from_sample_data tools            *)
(***************************************************************************)
DataTypes == {"sine_wave", "categories", "linear", "normal", "other"}
ChartTypes == {"line", "scatter", "bar", "pie", "histogram", "other"}

\* the keys of the dictionary generate_sample_data returns, {} when it raises
SampleKeys(data_type) ==
    CASE data_type \in {"sine_wave", "linear"} -> {"x", "y"}
      [] data_type = "categories" -> {"categories", "values"}
      [] data_type = "normal" -> {"values"}
      [] OTHER -> {}

\* the dictionary generate_sample_data returns for n_points points
GenerateSampleData(data_type, n_points) ==
    [k \in SampleKeys(data_type) |-> [i \in 1..n_points |-> 1]]

\* the tool returns a sentence about the data
SampleDataResultAsText(data) == Ok("Generated sample data")

\* the tool returns the dictionary itself
SampleDataResult(data) == [status |-> "ok", prefix |-> "", detail |-> "", value |-> data]

\* the generate_sample_data tool: no manager, no remote call
GenerateSampleDataCall(data_type, n_points) ==
    /\ pc = "idle"
    /\ args' = [data_type |-> data_type, n_points |-> n_points]
               @@ ToolArgs("generate_sample_data", "", <<>>)
    /\ IF SampleKeys(data_type) = {}
       THEN Finish(Error("", "Unsupported data type"))
       ELSE Finish(SampleDataResult(GenerateSampleData(data_type, n_points)))
    /\ UNCHANGED <<slides_manager, locals, remote_log>>

\* the chain with a histogram made of data holding nothing but values
ChartToolForValuesOnly(chart_type, keys) ==
    IF chart_type = "line" /\ "x" \in keys /\ "y" \in keys THEN "create_line_plot"
    ELSE IF chart_type = "scatter" /\ "x" \in keys /\ "y" \in keys
    THEN "create_scatter_plot"
    ELSE IF chart_type = "bar" /\ "categories" \in keys /\ "values" \in keys
    THEN "create_bar_chart"
    ELSE IF chart_type = "pie" /\ "categories" \in keys /\ "values" \in keys
    THEN "create_pie_chart"
    ELSE IF chart_type = "histogram" /\ keys = {"values"} THEN "create_histogram"
    ELSE None

\* the chart tool the if/elif chain calls for data, or None when it raises
ChartToolFor(chart_type, keys) ==
    IF chart_type = "line" /\ "x" \in keys /\ "y" \in keys THEN "create_line_plot"
    ELSE IF chart_type = "scatter" /\ "x" \in keys /\ "y" \in keys
    THEN "create_scatter_plot"
    ELSE IF chart_type = "bar" /\ "categories" \in keys /\ "values" \in keys
    THEN "create_bar_chart"
    ELSE IF chart_type = "pie" /\ "categories" \in keys /\ "values" \in keys
    THEN "create_pie_chart"
    ELSE IF chart_type = "histogram" /\ "values" \in keys THEN "create_histogram"
    ELSE None

\* the keyword arguments the chain passes to the chart tool as paired lists
SampleInputError(tool, data) ==
    CASE tool \in {"create_line_plot", "create_scatter_plot"} ->
           PairedListsError(data["x"], data["y"],
                            "x_values and y_values must have the same length")
      [] tool = "create_bar_chart" ->
           PairedListsError(data["categories"], data["values"],
                            "categories and values must have the same length")
      [] tool = "create_pie_chart" ->
           PairedListsError(data["categories"], data["values"],
                            "labels and values must have the same length")
      [] OTHER -> ""

\* chart_title=f"... of {data_type.title()} Data" of each branch of the chain
SampleChartTitle(tool, data_type) ==
    CASE tool = "create_line_plot" /\ data_type = "sine_wave" -> "Line Plot of Sine_Wave Data"
      [] tool = "create_line_plot" /\ data_type = "linear" -> "Line Plot of Linear Data"
      [] tool = "create_scatter_plot" /\ data_type = "sine_wave" ->
           "Scatter Plot of Sine_Wave Data"
      [] tool = "create_scatter_plot" /\ data_type = "linear" -> "Scatter Plot of Linear Data"
      [] tool = "create_bar_chart" /\ data_type = "categories" ->
           "Bar Chart of Categories Data"
      [] tool = "create_pie_chart" /\ data_type = "categories" ->
           "Pie Chart of Categories Data"
      [] tool = "create_histogram" /\ data_type = "categories" ->
           "Histogram of Categories Data"
      [] tool = "create_histogram" /\ data_type = "normal" -> "Histogram of Normal Data"

\* the chain passes its chart_title and leaves the other labels at their defaults
CreateChartFromSampleData(name, title, data_type, chart_type, n_points) ==
    /\ pc = "idle"
    /\ args' = [data_type |-> data_type, chart_type |-> chart_type,
                n_points |-> n_points] @@ ToolArgs(SampleTool, name, title)
    /\ LET keys == SampleKeys(data_type)
           tool == ChartToolFor(chart_type, keys)
       IN  IF keys = {}
           THEN /\ Finish(Error(SamplePrefix, "Unsupported data type"))
                /\ UNCHANGED <<slides_manager, locals, remote_log>>
           ELSE IF tool = None
           THEN /\ Finish(Error(SamplePrefix, "Incompatible data type and chart type"))
                /\ UNCHANGED <<slides_manager, locals, remote_log>>
           ELSE ChartToolBody(SampleTool, tool, name, title,
                              SampleInputError(tool,
                                               GenerateSampleData(data_type, n_points)),
                              [DefaultLabels(tool) EXCEPT
                                  !.chart_title = SampleChartTitle(tool, data_type)])

(***************************************************************************)
(* Theme and styling tools                                                 *)
(***************************************************************************)
ThemePrefix == "Failed to apply theme: "
StylingPrefix == "Failed to apply styling: "
ByNamePrefix == "Failed to apply theme by name: "
FindOrApplyPrefix == "Failed to find or apply theme: "
ListThemesPrefix == "Failed to list themes: "

SourceIds == {"src_1"}
ThemeNames == {"dark"}

\* responses of presentations().get(fields='masters'): the key may be missing
MasterResponses ==
    {[has_masters |-> FALSE, masters |-> <<>>],
     [has_masters |-> TRUE, masters |-> <<>>],
     [has_masters |-> TRUE, masters |-> <<"m1">>],
     [has_masters |-> TRUE, masters |-> <<"m1", "m2">>]}

\* responses of files().list(): the files found
FileLists ==
    {<<>>,
     <<[id |-> "theme_1", name |-> "dark one"]>>,
     <<[id |-> "theme_2", name |-> "dark two"], [id |-> "theme_1", name |-> "dark one"]>>}

\* the slide ids presentations().get(fields='slides') returns
StylingSlides == {<<>>, <<"s1">>, <<"s1", "s2">>}

ReplaceRequest ==
    [replaceAllShapesWithImage |-> [replaceMethod |-> "CENTER_INSIDE"]]

\* a single request whenever the source has a master
ThemeRequestsSingle(masters) ==
    IF masters = <<>> THEN <<>> ELSE <<ReplaceRequest>>

\* one request per master of the source
ThemeRequests(masters) == [i \in 1..Len(masters) |-> ReplaceRequest]

UpdateSlideRequest(sid) ==
    [updateSlideProperties |-> [objectId |-> sid, fields |-> "pageBackgroundFill"]]

\* one request per slide
StylingRequests(slides) == [i \in 1..Len(slides) |-> UpdateSlideRequest(slides[i])]

MastersCall(source) ==
    RemoteCall("presentations.get", <<[presentationId |-> source, fields |-> "masters"]>>)

\* the error the caller sees when SlidesManager.apply_theme_from_presentation
\* raises detail: under apply_theme_by_name the method's except clause wraps it
ThemeError(detail) ==
    IF args.tool = "apply_theme_by_name"
    THEN Wrapped(ByNamePrefix, Error(FindOrApplyPrefix, detail))
    ELSE Error(ThemePrefix, detail)

ThemeApplied ==
    IF args.tool = "apply_theme_by_name" THEN Ok("Applied theme") ELSE Ok("Applied theme from")

ApplyThemeFromPresentation(name, source) ==
    /\ pc = "idle"
    /\ args' = [source_presentation_id |-> source]
               @@ ToolArgs("apply_theme_from_presentation", name, <<>>)
    /\ IF NoActiveManager
       THEN Finish(Error(ThemePrefix, NoManagerMessage)) /\ UNCHANGED remote_log
       ELSE IF UnknownPresentation(name)
       THEN Finish(Error(ThemePrefix, NotFoundMessage)) /\ UNCHANGED remote_log
       ELSE /\ remote_log' = Append(remote_log, MastersCall(source))
            /\ pc' = "th_wait_masters"
            /\ UNCHANGED result
    /\ UNCHANGED <<slides_manager, locals>>

ApplyThemeByName(name, theme_name) ==
    /\ pc = "idle"
    /\ args' = [theme_name |-> theme_name] @@ ToolArgs("apply_theme_by_name", name, <<>>)
    /\ IF NoActiveManager
       THEN Finish(Error(ByNamePrefix, NoManagerMessage)) /\ UNCHANGED remote_log
       ELSE IF UnknownPresentation(name)
       THEN Finish(Error(ByNamePrefix, NotFoundMessage)) /\ UNCHANGED remote_log
       ELSE /\ Issue("drive.files.list", <<[name_contains |-> theme_name]>>)
            /\ pc' = "th_wait_list"
            /\ UNCHANGED result
    /\ UNCHANGED <<slides_manager, locals>>

\* files().list() returns or raises; the first file is the source of the theme
ThemeFilesListed ==
    /\ pc = "th_wait_list"
    /\ \/ \E e \in RemoteErrors :
            /\ remote_log' = Settled("failed")
            /\ Finish(ThemeError(e))
            /\ UNCHANGED files
       \/ \E found \in FileLists :
            /\ files' = <<found>>
            /\ IF found = <<>>
               THEN /\ remote_log' = Settled("ok")
                    /\ Finish(ThemeError("No theme template found"))
               ELSE /\ remote_log' = Append(Settled("ok"), MastersCall(found[1].id))
                    /\ pc' = "th_wait_masters"
                    /\ UNCHANGED result
    /\ UNCHANGED <<slides_manager, args, slide_id, created_slide_id, title_id, body_id,
                   text_requests, lines, line_i, current_index, bullet_requests,
                   presentation, body_ids, image_file_id, chart_tool,
                   source_presentation, caption>>

\* the masters of the source are read; the replace batch when it is not empty
ThemeMastersRead ==
    /\ pc = "th_wait_masters"
    /\ \/ \E e \in RemoteErrors :
            /\ remote_log' = Settled("failed")
            /\ Finish(ThemeError(e))
            /\ UNCHANGED source_presentation
       \/ \E reply \in MasterResponses :
            /\ source_presentation' = <<reply>>
            /\ IF ~reply.has_masters
               THEN /\ remote_log' = Settled("ok")
                    /\ Finish(ThemeError("Source presentation has no masters"))
               ELSE IF ThemeRequests(reply.masters) # <<>>
               THEN /\ remote_log' =
                         Append(Settled("ok"),
                                RemoteCall("presentations.batchUpdate", ThemeRequests(reply.masters)))
                    /\ pc' = "th_wait_replace"
                    /\ UNCHANGED result
               ELSE /\ remote_log' = Settled("ok")
                    /\ Finish(ThemeApplied)
    /\ UNCHANGED <<slides_manager, args, slide_id, created_slide_id, title_id, body_id,
                   text_requests, lines, line_i, current_index, bullet_requests,
                   presentation, body_ids, image_file_id, chart_tool, files, caption>>

ThemeReplaced ==
    /\ pc = "th_wait_replace"
    /\ \/ \E e \in RemoteErrors :
            /\ remote_log' = Settled("failed")
            /\ Finish(ThemeError(e))
       \/ /\ remote_log' = Settled("ok")
          /\ Finish(ThemeApplied)
    /\ UNCHANGED <<slides_manager, args, locals>>

ApplyBeautifulStyling(name) ==
    /\ pc = "idle"
    /\ args' = ToolArgs("apply_beautiful_styling", name, <<>>)
    /\ IF NoActiveManager
       THEN Finish(Error(StylingPrefix, NoManagerMessage)) /\ UNCHANGED remote_log
       ELSE IF UnknownPresentation(name)
       THEN Finish(Error(StylingPrefix, NotFoundMessage)) /\ UNCHANGED remote_log
       ELSE /\ Issue("presentations.get", <<[fields |-> "slides"]>>)
            /\ pc' = "st_wait_get"
            /\ UNCHANGED result
    /\ UNCHANGED <<slides_manager, locals>>

StylingSlidesRead ==
    /\ pc = "st_wait_get"
    /\ \/ \E e \in RemoteErrors :
            /\ remote_log' = Settled("failed")
            /\ Finish(Error(StylingPrefix, e))
       \/ \E slides \in StylingSlides :
            IF StylingRequests(slides) # <<>>
            THEN /\ remote_log' = Append(Settled("ok"),
                                         RemoteCall("presentations.batchUpdate",
                                                    StylingRequests(slides)))
                 /\ pc' = "st_wait_batch"
                 /\ UNCHANGED result
            ELSE /\ remote_log' = Settled("ok")
                 /\ Finish(Ok("Applied beautiful styling"))
    /\ UNCHANGED <<slides_manager, args, locals>>

StylingApplied ==
    /\ pc = "st_wait_batch"
    /\ LastCallReturns(StylingPrefix, "Applied beautiful styling")
    /\ UNCHANGED <<slides_manager, args, locals>>

ListAvailableThemes ==
    /\ pc = "idle"
    /\ args' = ToolArgs("list_available_themes", "", <<>>)
    /\ IF NoActiveManager
       THEN Finish(Error(ListThemesPrefix, NoManagerMessage)) /\ UNCHANGED remote_log
       ELSE /\ Issue("drive.files.list", <<[name_contains |-> "theme or template"]>>)
            /\ pc' = "lt_wait_list"
            /\ UNCHANGED result
    /\ UNCHANGED <<slides_manager, locals>>

\* files().list() returns or raises inside the method's own except clause
ThemesListed ==
    /\ pc = "lt_wait_list"
    /\ \/ \E e \in RemoteErrors :
            /\ remote_log' = Settled("failed")
            /\ Finish(Wrapped(ListThemesPrefix, Error(ListThemesPrefix, e)))
       \/ \E found \in FileLists :
            /\ remote_log' = Settled("ok")
            /\ Finish(Ok(IF found = <<>> THEN "No theme templates found in Google Drive."
                         ELSE "Available themes:"))
    /\ UNCHANGED <<slides_manager, args, locals>>

(***************************************************************************)
(* The caller receives the outcome; the server waits for the next call     *)
(***************************************************************************)
Return ==
    /\ pc = "done"
    /\ pc' = "idle"
    /\ args' = NoArgs
    /\ slide_id' = None
    /\ created_slide_id' = None
    /\ title_id' = None
    /\ body_id' = None
    /\ text_requests' = <<>>
    /\ lines' = <<>>
    /\ line_i' = 0
    /\ current_index' = 0
    /\ bullet_requests' = <<>>
    /\ presentation' = <<>>
    /\ body_ids' = <<>>
    /\ image_file_id' = None
    /\ chart_tool' = None
    /\ source_presentation' = <<>>
    /\ files' = <<>>
    /\ caption' = ""
    /\ remote_log' = <<>>
    /\ result' = NoResult
    /\ UNCHANGED slides_manager

Next ==
    \/ \E name \in Names : CreatePresentationNoCredentials(name)
    \/ \E name \in Names : CreatePresentationCall(name)
    \/ \E name \in Names : CreatePresentationRefresh(name)
    \/ CredentialsRefreshed
    \/ CreatePresentationReturns
    \/ \E name \in Names, title \in Titles, content \in Contents :
          AddContentSlideCall(name, title, content)
    \/ ContentSlideCreated
    \/ ContentSlideReadBack
    \/ ContentSlideTextInserted
    \/ ContentSlideBulletLine
    \/ ContentSlideBulletsIssued
    \/ ContentSlideBulletsApplied
    \/ \E name \in Names, title \in Titles, subtitle \in Subtitles :
          AddTitleSlideCall(name, title, subtitle)
    \/ TitleSlideCreated
    \/ TitleSlideSlept
    \/ TitleSlideReadBack
    \/ TitleSlideTextInserted
    \/ \E name \in Names, header \in Titles, subtitle \in Subtitles :
          AddSectionHeaderCall(name, header, subtitle)
    \/ SectionCreated
    \/ SectionReadBack
    \/ SectionTextInserted
    \/ \E name \in Names, title \in Titles : AddTwoColumnSlideCall(name, title)
    \/ TwoColumnCreated
    \/ TwoColumnReadBack
    \/ TwoColumnTextInserted
    \/ \E name \in Names, title \in Titles, data \in TableData :
          AddTableSlideCall(name, title, data)
    \/ TableSlideCreated
    \/ TableSlideReadBack
    \/ TableTitleInserted
    \/ TableCreated
    \/ TableHeaderFilled
    \/ TableDataFilled
    \/ \E name \in Names : GetPresentationUrl(name)
    \/ \E name \in Names, title \in Titles, categories \in Lists, values \in Lists,
          lab \in ChartLabels("create_bar_chart") :
          CreateBarChart(name, title, categories, values, lab)
    \/ \E name \in Names, title \in Titles, x_values \in Lists, y_values \in Lists,
          lab \in ChartLabels("create_line_plot") :
          CreateLinePlot(name, title, x_values, y_values, lab)
    \/ \E name \in Names, title \in Titles, labels \in Lists, values \in Lists,
          lab \in ChartLabels("create_pie_chart") :
          CreatePieChart(name, title, labels, values, lab)
    \/ \E name \in Names, title \in Titles, x_values \in Lists, y_values \in Lists,
          lab \in ChartLabels("create_scatter_plot") :
          CreateScatterPlot(name, title, x_values, y_values, lab)
    \/ \E name \in Names, title \in Titles, matrix \in Columns,
          lab \in ChartLabels("create_heatmap") :
          CreateHeatmap(name, title, matrix, lab)
    \/ \E name \in Names, title \in Titles, values \in Lists,
          lab \in ChartLabels("create_histogram") :
          CreateHistogram(name, title, values, lab)
    \/ \E name \in Names, title \in Titles, data \in Columns,
          lab \in ChartLabels("create_scatter_matrix") :
          CreateScatterMatrix(name, title, data, lab)
    \/ ImageUploaded
    \/ ImagePermitted
    \/ ImageSlideCreated
    \/ ImageSlideReadBack
    \/ ImageTitleInserted
    \/ ImageCreated
    \/ CaptionAdded
    \/ \E name \in Names, title \in Titles, data_type \in DataTypes,
          chart_type \in ChartTypes, n_points \in 0..MaxPoints :
          CreateChartFromSampleData(name, title, data_type, chart_type, n_points)
    \/ \E data_type \in DataTypes, n_points \in 0..MaxPoints :
          GenerateSampleDataCall(data_type, n_points)
    \/ \E name \in Names, source \in SourceIds : ApplyThemeFromPresentation(name, source)
    \/ \E name \in Names, theme_name \in ThemeNames : ApplyThemeByName(name, theme_name)
    \/ ThemeFilesListed
    \/ ThemeMastersRead
    \/ ThemeReplaced
    \/ \E name \in Names : ApplyBeautifulStyling(name)
    \/ StylingSlidesRead
    \/ StylingApplied
    \/ ListAvailableThemes
    \/ ThemesListed
    \/ Return

Spec == Init /\ [][Next]_vars

\* the steps that continue a running invocation: a remote call returns or
\* raises, or the bullet loop of add_content_slide advances
Step ==
    \/ CredentialsRefreshed
    \/ CreatePresentationReturns
    \/ ContentSlideCreated
    \/ ContentSlideReadBack
    \/ ContentSlideTextInserted
    \/ ContentSlideBulletLine
    \/ ContentSlideBulletsIssued
    \/ ContentSlideBulletsApplied
    \/ TitleSlideCreated
    \/ TitleSlideSlept
    \/ TitleSlideReadBack
    \/ TitleSlideTextInserted
    \/ SectionCreated
    \/ SectionReadBack
    \/ SectionTextInserted
    \/ TwoColumnCreated
    \/ TwoColumnReadBack
    \/ TwoColumnTextInserted
    \/ TableSlideCreated
    \/ TableSlideReadBack
    \/ TableTitleInserted
    \/ TableCreated
    \/ TableHeaderFilled
    \/ TableDataFilled
    \/ ImageUploaded
    \/ ImagePermitted
    \/ ImageSlideCreated
    \/ ImageSlideReadBack
    \/ ImageTitleInserted
    \/ ImageCreated
    \/ CaptionAdded
    \/ ThemeFilesListed
    \/ ThemeMastersRead
    \/ ThemeReplaced
    \/ StylingSlidesRead
    \/ StylingApplied
    \/ ThemesListed

\* every remote call returns or raises (execute() blocks until it completes),
\* and the interpreter keeps running the invocation
LiveSpec == Init /\ [][Next]_vars /\ WF_vars(Step)

TypeOK ==
    /\ pc \in {"idle", "done", "cp_wait_refresh", "cp_wait_create", "cs_wait_create", "cs_wait_get",
               "cs_wait_text", "cs_bullet_loop", "cs_wait_bullets",
               "ts_wait_create", "ts_sleep", "ts_wait_get", "ts_wait_text",
               "sh_wait_create", "sh_wait_get", "sh_wait_text",
               "tc_wait_create", "tc_wait_get", "tc_wait_text",
               "tb_wait_create", "tb_wait_get", "tb_wait_title", "tb_wait_table",
               "tb_wait_header", "tb_wait_data",
               "im_wait_upload", "im_wait_permission", "im_wait_create", "im_wait_get",
               "im_wait_title", "im_wait_image", "im_wait_caption",
               "th_wait_list", "th_wait_masters", "th_wait_replace",
               "st_wait_get", "st_wait_batch", "lt_wait_list"}
    /\ result.status \in {"none", "ok", "error"}
    /\ current_index \in Nat

(***************************************************************************)
(* Vocabulary of the properties                                            *)
(***************************************************************************)
StartOf(r) == r.createParagraphBullets.textRange.startIndex
EndOf(r) == r.createParagraphBullets.textRange.endIndex

\* the request carries a nesting level, and it is n
CarriesLevel(r, n) ==
    /\ "level" \in DOMAIN r.createParagraphBullets
    /\ r.createParagraphBullets.level = n

\* every character of s is white space
AllWhite(s) == \A i \in 1..Len(s) : s[i] \in {SP, TAB, NL}

RECURSIVE LeadingTabs(_)
\* number of leading tab characters of line
LeadingTabs(line) ==
    IF line # <<>> /\ Head(line) = TAB THEN 1 + LeadingTabs(Tail(line)) ELSE 0

RECURSIVE SumLens(_, _)
\* sum of len(line) + 1 over the first n lines of ls
SumLens(ls, n) == IF n = 0 THEN 0 ELSE SumLens(ls, n - 1) + Len(ls[n]) + 1

RECURSIVE NonBlankFrom(_, _)
\* the positions, from i on, of the lines of ls that are not blank
NonBlankFrom(ls, i) ==
    IF i > Len(ls) THEN <<>>
    ELSE (IF AllWhite(ls[i]) THEN <<>> ELSE <<i>>) \o NonBlankFrom(ls, i + 1)

NonBlank(ls) == NonBlankFrom(ls, 1)

\* number of non-blank lines among the first n lines of ls
NonBlankUpTo(ls, n) == Cardinality({i \in 1..n : ~AllWhite(ls[i])})

\* the for loop of the bullet section has run to its end
BulletsComputed ==
    \/ pc = "cs_bullet_loop" /\ line_i > Len(lines)
    \/ pc = "cs_wait_bullets"
    \/ pc = "done" /\ lines # <<>>

\* the start/end pairs of the requests of a batch
Ranges(reqs) == [k \in 1..Len(reqs) |-> <<StartOf(reqs[k]), EndOf(reqs[k])>>]

IsBulletRequest(r) == "createParagraphBullets" \in DOMAIN r
IsInsertText(r) == "insertText" \in DOMAIN r

\* a remote call that carries at least one createParagraphBullets edit
IsBulletBatch(c) ==
    /\ c.api = "presentations.batchUpdate"
    /\ \E k \in 1..Len(c.requests) : IsBulletRequest(c.requests[k])

(***************************************************************************)
(* C1 - worked example "a\n\tb\nc"                                         *)
(***************************************************************************)
\* C1 as stated: for the content "a\n\tb\nc" the ranges are (0,1,level 0),
\* (2,3,level 1), (4,5,level 0), the cursor being 2 after line 1 and 4 after line 2.
C1_Original ==
    args.content = ExampleContent =>
        /\ (pc = "cs_bullet_loop" /\ line_i = 2) => current_index = 2
        /\ (pc = "cs_bullet_loop" /\ line_i = 3) => current_index = 4
        /\ BulletsComputed =>
              /\ Ranges(bullet_requests) = <<<<0, 1>>, <<2, 3>>, <<4, 5>>>>
              /\ CarriesLevel(bullet_requests[1], 0)
              /\ CarriesLevel(bullet_requests[2], 1)
              /\ CarriesLevel(bullet_requests[3], 0)

\* C1 (amended): for the content "a\n\tb\nc" the ranges are exactly, in order,
\* (0,1), (2,4), (5,6), none of them carrying a nesting level, the cursor being 2
\* after line 1 and 5 after line 2.
C1_ExampleRanges ==
    args.content = ExampleContent =>
        /\ (pc = "cs_bullet_loop" /\ line_i = 2) => current_index = 2
        /\ (pc = "cs_bullet_loop" /\ line_i = 3) => current_index = 5
        /\ BulletsComputed =>
              /\ Ranges(bullet_requests) = <<<<0, 1>>, <<2, 4>>, <<5, 6>>>>
              /\ \A k \in 1..3 :
                    "level" \notin DOMAIN bullet_requests[k].createParagraphBullets

C1_Witness ==
    /\ pc = "cs_wait_bullets"
    /\ args.content = ExampleContent
    /\ Len(bullet_requests) = 3

(***************************************************************************)
(* C2 - cursor advance                                                     *)
(***************************************************************************)
\* C2 as stated: the cursor used for line k is the sum of len(line_i) + 1 over all
\* earlier lines i, untrimmed, blank or not.
C2_CursorIsSumOfLineLengths ==
    pc = "cs_bullet_loop" => current_index = SumLens(lines, line_i - 1)

(***************************************************************************)
(* C3 - offsets into the inserted text                                     *)
(***************************************************************************)
\* C3 as stated: the text inserted into the body placeholder is the content,
\* verbatim, and the start of the k-th range is the offset at which the k-th
\* non-blank line begins in that inserted string.
C3_StartsAreOffsetsIntoInsertedText ==
    BulletsComputed =>
        LET inserted == SplitLines(args.content)
            nb == NonBlank(inserted)
        IN  /\ \E k \in 1..Len(text_requests) :
                  text_requests[k] = InsertTextRequest(body_id, args.content)
            /\ \A k \in 1..Len(bullet_requests) :
                  /\ k <= Len(nb)
                  /\ StartOf(bullet_requests[k]) = SumLens(inserted, nb[k] - 1)

(***************************************************************************)
(* C4 - single-line content                                                *)
(***************************************************************************)
\* s is one non-blank line: no newline character, not only white space
SingleLine(s) == (\A i \in 1..Len(s) : s[i] # NL) /\ ~AllWhite(s)

\* C4 as stated: a single non-blank line s yields exactly one range, with start 0
\* and end len(s.rstrip()), at nesting level 0 (a range that names no level is at
\* level 0).
C4_SingleLineRange ==
    (BulletsComputed /\ SingleLine(args.content)) =>
        /\ Ranges(bullet_requests) = <<<<0, Len(RStrip(args.content))>>>>
        /\ \/ "level" \notin DOMAIN bullet_requests[1].createParagraphBullets
           \/ CarriesLevel(bullet_requests[1], 0)

(***************************************************************************)
(* C5 - nesting level                                                      *)
(***************************************************************************)
\* the line of the loop that the k-th bullet request was built from
LineOfRequest(k) == lines[NonBlank(lines)[k]]

\* C5 as stated: every bullet request carries a nesting level equal to the number
\* of leading tab characters of its line.
C5_Original ==
    \A k \in 1..Len(bullet_requests) :
        CarriesLevel(bullet_requests[k], LeadingTabs(LineOfRequest(k)))

\* C5 (amended): no bullet request carries a nesting level: each one consists of
\* the body placeholder id, a FIXED_RANGE start/end text range and the bullet preset
\* only, and the batch sent to the remote API is made of exactly these requests; the
\* leading tab characters of a line are not counted, they lie inside its range.
C5_NoLevelIsSent ==
    /\ \A k \in 1..Len(bullet_requests) :
          LET b == bullet_requests[k].createParagraphBullets
          IN  /\ DOMAIN bullet_requests[k] = {"createParagraphBullets"}
              /\ DOMAIN b = {"objectId", "textRange", "bulletPreset"}
              /\ DOMAIN b.textRange = {"type", "startIndex", "endIndex"}
              /\ b.objectId = body_id
              /\ b.textRange.type = "FIXED_RANGE"
              /\ b.bulletPreset = "BULLET_DISC_CIRCLE_SQUARE"
              /\ EndOf(bullet_requests[k]) - StartOf(bullet_requests[k])
                    > LeadingTabs(LineOfRequest(k))
    /\ \A j \in 1..Len(remote_log) :
          IsBulletBatch(remote_log[j]) => remote_log[j].requests = bullet_requests

C5_Witness ==
    /\ pc = "cs_wait_bullets"
    /\ IsBulletBatch(remote_log[Len(remote_log)])
    /\ \E k \in 1..Len(bullet_requests) : LeadingTabs(LineOfRequest(k)) > 0

(***************************************************************************)
(* C6 - length of a range                                                  *)
(***************************************************************************)
RECURSIVE DropLeadingTabs(_)
DropLeadingTabs(line) ==
    IF line # <<>> /\ Head(line) = TAB THEN DropLeadingTabs(Tail(line)) ELSE line

\* C6 as stated: end - start is the number of characters of the line once its
\* leading tabs and its trailing white space are removed.
C6_Original ==
    \A k \in 1..Len(bullet_requests) :
        EndOf(bullet_requests[k]) - StartOf(bullet_requests[k])
            = Len(RStrip(DropLeadingTabs(LineOfRequest(k))))

\* C6 (amended): end - start is the number of characters of the line (a line of the
\* trimmed content) once its trailing white space alone is removed; its leading tab
\* characters are counted.
C6_LengthIsRStrippedLine ==
    \A k \in 1..Len(bullet_requests) :
        EndOf(bullet_requests[k]) - StartOf(bullet_requests[k])
            = Len(LineOfRequest(k))
                - Cardinality({i \in 1..Len(LineOfRequest(k)) :
                                  AllWhite(SubSeq(LineOfRequest(k), i, Len(LineOfRequest(k))))})

C6_Witness ==
    /\ BulletsComputed
    /\ \E k \in 1..Len(bullet_requests) :
          /\ LeadingTabs(LineOfRequest(k)) > 0
          /\ AllWhite(<<LineOfRequest(k)[Len(LineOfRequest(k))]>>)

(***************************************************************************)
(* C7 - one range per non-blank line                                       *)
(***************************************************************************)
\* C7: while the loop runs there is exactly one range per non-blank line already
\* visited and none for a blank one; once it has run, there are as many ranges as
\* the content has non-blank lines; the ranges are in line order (every range starts
\* after the one before it) and every range has end > start.
C7_OneRangePerNonBlankLine ==
    /\ pc = "cs_bullet_loop" =>
          Len(bullet_requests) = NonBlankUpTo(lines, line_i - 1)
    /\ BulletsComputed =>
          Len(bullet_requests) = Len(NonBlank(SplitLines(args.content)))
    /\ \A k \in 1..Len(bullet_requests) :
          /\ EndOf(bullet_requests[k]) > StartOf(bullet_requests[k])
          /\ k > 1 => StartOf(bullet_requests[k]) > StartOf(bullet_requests[k - 1])

C7_Witness ==
    /\ BulletsComputed
    /\ Len(bullet_requests) = 2
    /\ \E i \in 1..Len(lines) : lines[i] # <<>> /\ AllWhite(lines[i])

(***************************************************************************)
(* C8 - ranges do not overlap                                              *)
(***************************************************************************)
\* C8: the end of an earlier range is at most the start of every later range, and
\* the starts are non-decreasing in emission order.
C8_RangesDoNotOverlap ==
    \A i, j \in 1..Len(bullet_requests) :
        i < j => /\ EndOf(bullet_requests[i]) <= StartOf(bullet_requests[j])
                 /\ StartOf(bullet_requests[i]) <= StartOf(bullet_requests[j])

C8_Witness ==
    /\ pc = "cs_wait_bullets"
    /\ Len(bullet_requests) >= 2

(***************************************************************************)
(* C9 - empty and blank content                                            *)
(***************************************************************************)
\* C9: for a content that is empty or made of white space only, no bullet range is
\* computed and no remote call of the invocation carries a bullet edit.
C9_BlankContentNoBullets ==
    (args.tool = "add_content_slide" /\ AllWhite(args.content)) =>
        /\ bullet_requests = <<>>
        /\ pc # "cs_wait_bullets"
        /\ \A j \in 1..Len(remote_log) : ~IsBulletBatch(remote_log[j])

C9_Witness ==
    /\ pc = "done"
    /\ result.status = "ok"
    /\ args.tool = "add_content_slide"
    /\ body_id # None
    /\ args.content # <<>>
    /\ AllWhite(args.content)

(***************************************************************************)
(* C10 - text insertion before bullets                                     *)
(***************************************************************************)
\* the call inserts text into the placeholder oid
InsertsInto(c, oid, text) ==
    /\ c.api = "presentations.batchUpdate"
    /\ \E k \in 1..Len(c.requests) :
          /\ IsInsertText(c.requests[k])
          /\ c.requests[k].insertText.objectId = oid
          /\ c.requests[k].insertText.text = text

\* C10: whenever a call carrying bullet edits is in the log of the invocation, an
\* earlier call of the log inserted the raw content into the placeholder those
\* edits address, and that call has returned successfully.
C10_TextInsertedBeforeBullets ==
    \A j \in 1..Len(remote_log) :
        IsBulletBatch(remote_log[j]) =>
            \A k \in 1..Len(remote_log[j].requests) :
                \E i \in 1..(j - 1) :
                    /\ InsertsInto(remote_log[i],
                                   remote_log[j].requests[k].createParagraphBullets.objectId,
                                   args.content)
                    /\ remote_log[i].status = "ok"

C10_Witness ==
    /\ pc = "cs_wait_bullets"
    /\ remote_log[Len(remote_log)].status = "pending"
    /\ IsBulletBatch(remote_log[Len(remote_log)])
    /\ title_id # None

(***************************************************************************)
(* C11 - one name->id table for the whole process                          *)
(***************************************************************************)
\* the name->id table a tool call reads: empty while there is no manager
TableOf(m) == IF m = NoManager THEN [n \in {} |-> None] ELSE m.presentations

\* C11 as stated: the table only grows; every entry a successful
\* create_presentation added is still there, with its id, for every later call,
\* whatever other presentations are created in between.
C11_EntriesAreKept ==
    [][\A n \in DOMAIN TableOf(slides_manager) :
          /\ n \in DOMAIN TableOf(slides_manager')
          /\ (args.tool = "create_presentation" /\ args.presentation_name = n)
             \/ TableOf(slides_manager')[n] = TableOf(slides_manager)[n]]_vars

(***************************************************************************)
(* C12 - validation of the table data                                      *)
(***************************************************************************)
\* headers missing or empty, rows missing or empty, or a row whose length is
\* not the number of headers
InvalidTable(data) ==
    \/ "headers" \notin data.keys
    \/ data.headers = <<>>
    \/ "rows" \notin data.keys
    \/ data.rows = <<>>
    \/ \E i \in 1..Len(data.rows) : Len(data.rows[i]) # Len(data.headers)

ValidationMessages ==
    {"Table headers are required", "Table rows are required",
     "All rows must have the same number of columns as headers"}

RejectedAsInvalid ==
    /\ result.status = "error"
    /\ result.prefix = TablePrefix
    /\ result.detail \in ValidationMessages

\* the i-th call of the log is a successful batch holding a createTable request
\* for a table of the size of the data
CreatesTable(i) ==
    /\ remote_log[i].status = "ok"
    /\ Len(remote_log[i].requests) = 1
    /\ "createTable" \in DOMAIN remote_log[i].requests[1]
    /\ remote_log[i].requests[1].createTable.rows = Len(args.data.rows) + 1
    /\ remote_log[i].requests[1].createTable.columns = Len(args.data.headers)

\* C12 as stated: add_table_slide ends with an input-validation error and an
\* empty log of remote calls exactly when the data is invalid.
C12_Original ==
    (args.tool = "add_table_slide" /\ pc = "done") =>
        (InvalidTable(args.data) <=> (RejectedAsInvalid /\ remote_log = <<>>))

\* C12 amended: with a manager, add_table_slide ends with an input-validation
\* error exactly when the data is invalid; without one it ends with the
\* no-manager error whatever the data; invalid data never leads to a remote
\* call; valid data under a manager that knows the name reaches the remote
\* calls, and a confirmation means the table was created with the size of
\* the data.
C12_TableValidation ==
    args.tool = "add_table_slide" =>
        /\ InvalidTable(args.data) => remote_log = <<>>
        /\ (pc = "done" /\ slides_manager # NoManager) =>
               (InvalidTable(args.data) <=> RejectedAsInvalid)
        /\ (pc = "done" /\ slides_manager = NoManager) =>
               result = Error(TablePrefix, NoManagerMessage)
        /\ (~InvalidTable(args.data)
              /\ args.presentation_name \in DOMAIN TableOf(slides_manager)) =>
               remote_log # <<>>
        /\ (pc = "done" /\ result.status = "ok") =>
               /\ ~InvalidTable(args.data)
               /\ \E i \in 1..Len(remote_log) : CreatesTable(i)

\* a call under a manager whose second row is shorter than the headers is
\* rejected
C12_Witness ==
    /\ args.tool = "add_table_slide"
    /\ pc = "done"
    /\ slides_manager # NoManager
    /\ args.data.keys = {"headers", "rows"}
    /\ Len(args.data.headers) = 2
    /\ Len(args.data.rows) = 2
    /\ Len(args.data.rows[1]) = 2
    /\ Len(args.data.rows[2]) = 1
    /\ RejectedAsInvalid

(***************************************************************************)
(* C13 - paired lists of a chart                                           *)
(***************************************************************************)
PairedTools == {"create_bar_chart", "create_line_plot", "create_pie_chart",
                "create_scatter_plot"}

\* the paired lists of the chart request differ in length
ListsDiffer ==
    CASE args.tool = "create_bar_chart" -> Len(args.categories) # Len(args.values)
      [] args.tool \in {"create_line_plot", "create_scatter_plot"} ->
           Len(args.x_values) # Len(args.y_values)
      [] args.tool = "create_pie_chart" -> Len(args.labels) # Len(args.values)
      [] OTHER -> FALSE

\* the length-mismatch message of the tool
LengthMessage ==
    CASE args.tool = "create_bar_chart" ->
           "categories and values must have the same length"
      [] args.tool \in {"create_line_plot", "create_scatter_plot"} ->
           "x_values and y_values must have the same length"
      [] args.tool = "create_pie_chart" -> "labels and values must have the same length"
      [] OTHER -> ""

\* C13 as stated: a chart request with paired lists of different lengths ends
\* with the length-mismatch error and no remote call.
C13_Original ==
    (args.tool \in PairedTools /\ ListsDiffer /\ pc = "done") =>
        /\ result.status = "error"
        /\ result.detail = LengthMessage
        /\ remote_log = <<>>

\* C13 amended: a chart request with paired lists of different lengths never
\* issues a remote call; under a manager it ends with the tool's prefix and
\* its length-mismatch message, without a manager with the no-manager error.
C13_LengthMismatchRejected ==
    (args.tool \in PairedTools /\ ListsDiffer) =>
        /\ remote_log = <<>>
        /\ pc \in {"idle", "done"}
        /\ pc = "done" =>
             IF slides_manager = NoManager
             THEN result = Error(ChartPrefix(args.tool), NoManagerMessage)
             ELSE result = Error(ChartPrefix(args.tool), LengthMessage)

\* a bar chart with two categories and one value, under a manager
C13_Witness ==
    /\ args.tool = "create_bar_chart"
    /\ pc = "done"
    /\ slides_manager # NoManager
    /\ Len(args.categories) = 2
    /\ Len(args.values) = 1
    /\ result.detail = "categories and values must have the same length"

(***************************************************************************)
(* C14 - presentation name not in the table                                *)
(***************************************************************************)
\* the tools that take the name of an existing presentation
NameTools ==
    {"add_title_slide", "add_section_header", "add_content_slide",
     "add_two_column_slide", "add_table_slide", "get_presentation_url",
     "create_bar_chart", "create_line_plot", "create_pie_chart",
     "create_scatter_plot", "create_heatmap", "create_histogram",
     "create_scatter_matrix", "create_chart_from_sample_data",
     "apply_theme_from_presentation", "apply_beautiful_styling",
     "apply_theme_by_name"}

\* the tools that render a chart before the name is looked up
RenderingTools ==
    {"create_bar_chart", "create_line_plot", "create_pie_chart",
     "create_scatter_plot", "create_heatmap", "create_histogram",
     "create_scatter_matrix", "create_chart_from_sample_data"}

\* the fixed prefix of the except clause of each tool
FixedPrefix(tool) ==
    CASE tool = "create_presentation" -> "Failed to create presentation: "
      [] tool = "add_title_slide" -> "Failed to add title slide: "
      [] tool = "add_section_header" -> "Failed to add section header slide: "
      [] tool = "add_content_slide" -> "Failed to add content slide: "
      [] tool = "add_two_column_slide" -> "Failed to add two-column slide: "
      [] tool = "add_table_slide" -> "Failed to add table slide: "
      [] tool = "get_presentation_url" -> "Failed to get presentation URL: "
      [] tool = "create_bar_chart" -> "Failed to add bar chart slide: "
      [] tool = "create_line_plot" -> "Failed to add line plot slide: "
      [] tool = "create_pie_chart" -> "Failed to add pie chart slide: "
      [] tool = "create_scatter_plot" -> "Failed to add scatter plot slide: "
      [] tool = "create_heatmap" -> "Failed to add heatmap slide: "
      [] tool = "create_histogram" -> "Failed to add histogram slide: "
      [] tool = "create_scatter_matrix" -> "Failed to add scatter matrix slide: "
      [] tool = "create_chart_from_sample_data" ->
           "Failed to create chart from sample data: "
      [] tool = "apply_theme_from_presentation" -> "Failed to apply theme: "
      [] tool = "apply_beautiful_styling" -> "Failed to apply styling: "
      [] tool = "apply_theme_by_name" -> "Failed to apply theme by name: "
      [] tool = "list_available_themes" -> "Failed to list themes: "
      [] OTHER -> ""

\* the (data_type, chart_type) pairings the if/elif chain delegates
AcceptedPairings ==
    ({"sine_wave", "linear"} \X {"line", "scatter"})
    \cup ({"categories"} \X {"bar", "pie", "histogram"})
    \cup ({"normal"} \X {"histogram"})

\* the tool's own check of its other inputs fails
OwnInputRejected ==
    CASE args.tool = "add_table_slide" -> InvalidTable(args.data)
      [] args.tool \in PairedTools -> ListsDiffer
      [] args.tool = "create_scatter_matrix" ->
           \/ args.data = <<>>
           \/ \E i, j \in 1..Len(args.data) : Len(args.data[i]) # Len(args.data[j])
      [] args.tool = "create_chart_from_sample_data" ->
           <<args.data_type, args.chart_type>> \notin AcceptedPairings
      [] OTHER -> FALSE

\* a manager exists and the name of the call is not in its table
NameNotInTable ==
    /\ args.tool \in NameTools
    /\ slides_manager # NoManager
    /\ args.presentation_name \notin DOMAIN TableOf(slides_manager)

\* C14 as stated: a call with a name that is not in the table ends with the
\* 'not found' error and no remote call.
C14_Original ==
    (NameNotInTable /\ pc = "done") =>
        /\ result.status = "error"
        /\ result.detail = NotFoundMessage
        /\ remote_log = <<>>

\* C14 amended: a call with a name that is not in the table never issues a
\* remote call and ends with an error under the tool's prefix; the error is
\* 'not found' unless the tool's check of its other inputs, or the rendering
\* of the chart, failed first.
C14_UnknownNameRejected ==
    NameNotInTable =>
        /\ remote_log = <<>>
        /\ pc \in {"idle", "done"}
        /\ pc = "done" =>
             /\ result.status = "error"
             /\ result.prefix = FixedPrefix(args.tool)
             /\ OwnInputRejected => result.detail # NotFoundMessage
             /\ ~OwnInputRejected =>
                  \/ result.detail = NotFoundMessage
                  \/ args.tool \in RenderingTools /\ result.detail \in RenderErrors

\* a title slide is requested under a manager that does not know the name
C14_Witness ==
    /\ args.tool = "add_title_slide"
    /\ NameNotInTable
    /\ pc = "done"
    /\ result = Error("Failed to add title slide: ", NotFoundMessage)
    /\ remote_log = <<>>

(***************************************************************************)
(* C15 - remote calls one after another, none after a failure              *)
(***************************************************************************)
\* the positions of the calls of the invocation whose status is st
CallsWith(st) == {i \in 1..Len(remote_log) : remote_log[i].status = st}

\* only the last call of the log may be waiting or failed; a call is waiting
\* only while the invocation runs; a failed call ended the invocation with an
\* error that carries the failure; a confirmation means every call succeeded
OneCallAtATime ==
    /\ \A i \in 1..Len(remote_log) :
          remote_log[i].status # "ok" => i = Len(remote_log)
    /\ CallsWith("pending") # {} => pc \notin {"idle", "done"}
    /\ CallsWith("failed") # {} =>
          /\ pc = "done"
          /\ result.status = "error"
          /\ result.detail \in RemoteErrors
    /\ (pc = "done" /\ result.status = "ok") =>
          CallsWith("ok") = 1..Len(remote_log)

\* C15: within one invocation the remote calls are issued one after another,
\* no call follows a failed one, and every invocation terminates, with a
\* confirmation only after all its calls succeeded and with an error when a
\* call failed.
C15_SequentialAndTerminates ==
    /\ []OneCallAtATime
    /\ (pc \notin {"idle", "done"}) ~> (pc = "done")

\* a table slide whose third call failed after two successful ones
C15_Witness ==
    /\ args.tool = "add_table_slide"
    /\ pc = "done"
    /\ Len(remote_log) >= 3
    /\ remote_log[Len(remote_log)].status = "failed"
    /\ \A i \in 1..(Len(remote_log) - 1) : remote_log[i].status = "ok"
    /\ result.status = "error"

(***************************************************************************)
(* C16 - no retry, no rollback                                             *)
(***************************************************************************)
\* the requests of every call of the log, one after another
RECURSIVE RequestsFrom(_)
RequestsFrom(i) ==
    IF i > Len(remote_log) THEN <<>>
    ELSE remote_log[i].requests \o RequestsFrom(i + 1)

AllRequests == RequestsFrom(1)

\* the request creates the slide sid
CreatesSlide(r, sid) == "createSlide" \in DOMAIN r /\ r.createSlide.objectId = sid

\* the request removes something from the document or from storage
Removes(r) == DOMAIN r \cap {"deleteObject", "deleteText", "deleteTableRow",
                             "deleteTableColumn", "deleteParagraphBullets"} # {}

\* the invocation created its slide: the createSlide batch succeeded
SlideWasCreated ==
    \E i \in CallsWith("ok") :
        \E k \in 1..Len(remote_log[i].requests) :
            CreatesSlide(remote_log[i].requests[k], created_slide_id)

\* C16: a failed call is never followed by a call sending the same requests
\* again, no call of an invocation removes anything, and when a call fails
\* after the slide was created the invocation reports an error while the
\* log holds the successful createSlide and no removal.
C16_NoRetryNoRollback ==
    /\ \A i \in CallsWith("failed") : \A j \in 1..Len(remote_log) :
          j > i => ~(remote_log[j].api = remote_log[i].api
                     /\ remote_log[j].requests = remote_log[i].requests)
    /\ \A k \in 1..Len(AllRequests) : ~Removes(AllRequests[k])
    /\ \A i \in 1..Len(remote_log) :
          remote_log[i].api \notin {"drive.files.delete", "presentations.delete"}
    /\ (CallsWith("failed") # {} /\ SlideWasCreated) =>
          /\ result.status = "error"
          /\ Len(remote_log) \in CallsWith("failed")

\* add_content_slide created its slide and its bullet batch failed
C16_Witness ==
    /\ args.tool = "add_content_slide"
    /\ pc = "done"
    /\ SlideWasCreated
    /\ Len(remote_log) = 4
    /\ remote_log[4].status = "failed"
    /\ IsBulletBatch(remote_log[4])
    /\ result.status = "error"

(***************************************************************************)
(* C17 - remote failures are re-wrapped                                    *)
(***************************************************************************)
\* a remote call of the invocation failed
RemoteFailure == CallsWith("failed") # {}

\* the tools whose remote calls run inside a second except clause
NestedTools == {"create_chart_from_sample_data", "apply_theme_by_name",
                "list_available_themes"}

\* the prefix of that inner except clause
InnerPrefix ==
    CASE args.tool = "create_chart_from_sample_data" -> FixedPrefix(chart_tool)
      [] args.tool = "apply_theme_by_name" -> "Failed to find or apply theme: "
      [] args.tool = "list_available_themes" -> "Failed to list themes: "
      [] OTHER -> ""

\* C17 as stated: after a remote failure the message of the error is the
\* tool's fixed prefix immediately followed by the detail of the failure.
C17_Original ==
    RemoteFailure =>
        /\ result.status = "error"
        /\ result.prefix = FixedPrefix(args.tool)
        /\ "inner" \notin DOMAIN result
        /\ result.detail \in RemoteErrors

\* C17 amended: after a remote failure the invocation ends with one error
\* whose message starts with the tool's fixed prefix and ends with the detail
\* of the failure; for create_chart_from_sample_data, apply_theme_by_name and
\* list_available_themes the prefix of the inner except clause stands between
\* them, for every other tool nothing does.
C17_PrefixThenDetail ==
    RemoteFailure =>
        /\ pc = "done"
        /\ result.status = "error"
        /\ result.prefix = FixedPrefix(args.tool)
        /\ result.detail \in RemoteErrors
        /\ IF args.tool \in NestedTools
           THEN "inner" \in DOMAIN result /\ result.inner = InnerPrefix
           ELSE "inner" \notin DOMAIN result

\* the upload of a line plot made from sample data failed
C17_Witness ==
    /\ args.tool = "create_chart_from_sample_data"
    /\ chart_tool = "create_line_plot"
    /\ RemoteFailure
    /\ result.prefix = "Failed to create chart from sample data: "
    /\ result.inner = "Failed to add line plot slide: "
    /\ result.detail = "HttpError"

(***************************************************************************)
(* C18 - read-back between the createSlide batch and the text batch        *)
(***************************************************************************)
AddSlideTools ==
    {"add_title_slide", "add_section_header", "add_content_slide",
     "add_two_column_slide", "add_table_slide"} \cup RenderingTools

\* the call creates the slide of the invocation
IsCreateSlideCall(c) ==
    /\ c.api = "presentations.batchUpdate"
    /\ \E k \in 1..Len(c.requests) : "createSlide" \in DOMAIN c.requests[k]

\* the object ids a batch creates itself (the caption box)
CreatedInBatch(c) ==
    {c.requests[k].createShape.objectId :
        k \in {n \in 1..Len(c.requests) : "createShape" \in DOMAIN c.requests[n]}}

\* the object ids a batch sends title or body text to: its insertText requests
\* other than table cells and boxes it creates itself
TextTargets(c) ==
    {c.requests[k].insertText.objectId :
        k \in {n \in 1..Len(c.requests) :
                 /\ IsInsertText(c.requests[n])
                 /\ "cellLocation" \notin DOMAIN c.requests[n].insertText
                 /\ c.requests[n].insertText.objectId \notin CreatedInBatch(c)}}

\* the placeholder ids of the slide sl
ElementIds(sl) == {sl.pageElements[e].objectId : e \in 1..Len(sl.pageElements)}

\* the ids on the slide of the read-back that is the created slide
PlaceholderIdsRead ==
    UNION {ElementIds(presentation[n]) :
             n \in {m \in 1..Len(presentation) :
                      presentation[m].objectId = created_slide_id}}

\* C18: in every add-slide tool the read-back is issued after the createSlide
\* batch succeeded, a batch with title or body text is issued only after the
\* read-back succeeded, and that text goes only to object ids found on the
\* created slide in the read-back.
C18_ReadBackBeforeText ==
    args.tool \in AddSlideTools =>
        \A i \in 1..Len(remote_log) :
            /\ remote_log[i].api = "presentations.get" =>
                 \E c \in 1..(i - 1) :
                     IsCreateSlideCall(remote_log[c]) /\ remote_log[c].status = "ok"
            /\ TextTargets(remote_log[i]) # {} =>
                 /\ \E g \in 1..(i - 1) :
                       /\ remote_log[g].api = "presentations.get"
                       /\ remote_log[g].status = "ok"
                       /\ \E c \in 1..(g - 1) : IsCreateSlideCall(remote_log[c])
                 /\ TextTargets(remote_log[i]) \subseteq PlaceholderIdsRead

\* a two-column slide whose title and both columns were found and filled
C18_Witness ==
    /\ args.tool = "add_two_column_slide"
    /\ Len(remote_log) = 3
    /\ IsCreateSlideCall(remote_log[1])
    /\ remote_log[2].api = "presentations.get"
    /\ TextTargets(remote_log[3]) = {"ph_title", "ph_body", "ph_body2"}
    /\ remote_log[3].status = "ok"

(***************************************************************************)
(* C19 - upload, permission, then the image                                *)
(***************************************************************************)
\* the call holds a createImage request
IsCreateImageCall(c) ==
    /\ c.api = "presentations.batchUpdate"
    /\ \E k \in 1..Len(c.requests) : "createImage" \in DOMAIN c.requests[k]

\* the URL names the file fid
UrlNames(url, fid) ==
    <<url, fid>> \in {<<"https://drive.google.com/uc?id=file_1", "file_1">>,
                      <<"https://drive.google.com/uc?id=file_2", "file_2">>}

\* the call makes the file fid readable by anyone
IsAnyoneReaderOn(c, fid) ==
    /\ c.api = "drive.permissions.create"
    /\ c.requests = <<[fileId |-> fid, type |-> "anyone", role |-> "reader"]>>

\* C19: in an image-slide creation the upload is the first remote call, the
\* permission call follows it once it succeeded and makes the uploaded file
\* readable by anyone, and a createImage request is issued only after both
\* succeeded, with the URL of that same file.
C19_UploadPermissionImage ==
    args.tool \in RenderingTools =>
        \A i \in 1..Len(remote_log) :
            /\ remote_log[i].api = "drive.files.create" => i = 1
            /\ remote_log[i].api = "drive.permissions.create" =>
                 /\ i = 2
                 /\ remote_log[1].api = "drive.files.create"
                 /\ remote_log[1].status = "ok"
                 /\ IsAnyoneReaderOn(remote_log[i], image_file_id)
            /\ IsCreateImageCall(remote_log[i]) =>
                 /\ i > 2
                 /\ remote_log[1].api = "drive.files.create"
                 /\ remote_log[1].status = "ok"
                 /\ IsAnyoneReaderOn(remote_log[2], image_file_id)
                 /\ remote_log[2].status = "ok"
                 /\ \A k \in 1..Len(remote_log[i].requests) :
                       UrlNames(remote_log[i].requests[k].createImage.url, image_file_id)

\* the image of the uploaded file file_2 was put on the slide
C19_Witness ==
    /\ args.tool = "create_histogram"
    /\ image_file_id = "file_2"
    /\ \E i \in 1..Len(remote_log) :
          IsCreateImageCall(remote_log[i]) /\ remote_log[i].status = "ok"

(***************************************************************************)
(* C20 - sample data and chart type                                        *)
(***************************************************************************)
\* the pairings the claim lists as compatible
ClaimedPairings ==
    ({"sine_wave", "linear"} \X {"line", "scatter"})
    \cup ({"categories"} \X {"bar", "pie"})
    \cup ({"normal"} \X {"histogram"})

SupportedDataTypes == {"sine_wave", "categories", "linear", "normal"}

\* the chart tool of a chart type
DelegateOf(chart_type) ==
    CASE chart_type = "line" -> "create_line_plot"
      [] chart_type = "scatter" -> "create_scatter_plot"
      [] chart_type = "bar" -> "create_bar_chart"
      [] chart_type = "pie" -> "create_pie_chart"
      [] chart_type = "histogram" -> "create_histogram"
      [] OTHER -> None

\* the call fails at once: an error, no chart tool invoked, no remote call
FailsWithoutDelegating ==
    /\ chart_tool = None
    /\ remote_log = <<>>
    /\ pc = "done"
    /\ result.status = "error"
    /\ result.prefix = "Failed to create chart from sample data: "

\* C20 as stated: every pairing outside the claimed list fails without a
\* remote call; every pairing of the list delegates to one chart tool.
C20_Original ==
    args.tool = "create_chart_from_sample_data" =>
        IF <<args.data_type, args.chart_type>> \in ClaimedPairings
        THEN chart_tool = DelegateOf(args.chart_type)
        ELSE FailsWithoutDelegating

\* C20 amended: the call fails without invoking a chart tool and without a
\* remote call for every unsupported data type and every pairing that is not
\* accepted; the accepted pairings are the claimed ones and categories with
\* histogram, and each delegates to exactly the chart tool of its chart type.
C20_PairingDecidesDelegation ==
    args.tool = "create_chart_from_sample_data" =>
        IF <<args.data_type, args.chart_type>> \in AcceptedPairings
        THEN chart_tool = DelegateOf(args.chart_type)
        ELSE /\ FailsWithoutDelegating
             /\ result.detail = IF args.data_type \in SupportedDataTypes
                                THEN "Incompatible data type and chart type"
                                ELSE "Unsupported data type"

\* a histogram made of the values of categories data reached the slide
C20_Witness ==
    /\ args.tool = "create_chart_from_sample_data"
    /\ args.data_type = "categories"
    /\ args.chart_type = "histogram"
    /\ chart_tool = "create_histogram"
    /\ pc = "done"
    /\ result.status = "ok"
    /\ Len(remote_log) >= 5

(***************************************************************************)
(* C21 - what a tool gives back                                            *)
(***************************************************************************)
\* the invocation returned a confirmation string
ReturnsConfirmation ==
    /\ result.status = "ok"
    /\ "value" \notin DOMAIN result
    /\ result.prefix # ""

\* the invocation raised an error that carries a message
RaisesMessage ==
    /\ result.status = "error"
    /\ result.detail # ""

\* the invocation returned a dictionary of lists with n_points numbers each
ReturnsSeries ==
    /\ result.status = "ok"
    /\ "value" \in DOMAIN result
    /\ DOMAIN result.value \in {{"x", "y"}, {"categories", "values"}, {"values"}}
    /\ \A k \in DOMAIN result.value : Len(result.value[k]) = args.n_points

\* C21 as stated: every invocation ends with a confirmation string or with
\* an error carrying a message, and with nothing else.
C21_Original ==
    pc = "done" => (ReturnsConfirmation \/ RaisesMessage)

\* C21 amended: every invocation ends in exactly one outcome; for every tool
\* but generate_sample_data it is a confirmation string or an error carrying
\* a message; generate_sample_data returns the dictionary of the generated
\* series, or raises the unsupported-data-type error.
C21_OneOutcome ==
    pc = "done" =>
        IF args.tool = "generate_sample_data"
        THEN IF args.data_type \in SupportedDataTypes
             THEN ReturnsSeries
             ELSE RaisesMessage /\ result.detail = "Unsupported data type"
        ELSE /\ ReturnsConfirmation \/ RaisesMessage
             /\ ~(ReturnsConfirmation /\ RaisesMessage)

\* sine wave data of two points was returned
C21_Witness ==
    /\ args.tool = "generate_sample_data"
    /\ pc = "done"
    /\ args.data_type = "sine_wave"
    /\ args.n_points = 2
    /\ ReturnsSeries
    /\ DOMAIN result.value = {"x", "y"}

(***************************************************************************)
(* C22 - the ranges are a function of the content                          *)
(***************************************************************************)
\* the line without its white space at the end
TrimRight(line) ==
    SubSeq(line, 1, Len(line)
                    - Cardinality({i \in 1..Len(line) :
                                      AllWhite(SubSeq(line, i, Len(line)))}))

\* the content without white space at both ends
Trimmed(content) ==
    LET first == Cardinality({i \in 1..Len(content) : AllWhite(SubSeq(content, 1, i))})
    IN  TrimRight(SubSeq(content, first + 1, Len(content)))

RECURSIVE RangesFrom(_, _, _)
\* the ranges of the lines ls from the i-th on, the cursor being cur
RangesFrom(ls, i, cur) ==
    IF i > Len(ls) THEN <<>>
    ELSE IF AllWhite(ls[i]) THEN RangesFrom(ls, i + 1, cur + Len(ls[i]) + 1)
    ELSE <<<<cur, cur + Len(TrimRight(ls[i]))>>>>
         \o RangesFrom(ls, i + 1, cur + Len(TrimRight(ls[i])) + 1)

\* the ranges computed from the content alone
RangesOfContent(content) == RangesFrom(SplitLines(Trimmed(content)), 1, 0)

\* C22: whenever the bullet computation has run, its ranges are the ones
\* determined by the content string alone, whatever the title, the name, the
\* presentation, the manager and the calls made before.
C22_RangesDependOnContentOnly ==
    BulletsComputed => Ranges(bullet_requests) = RangesOfContent(args.content)

\* the same content gave its three ranges under the second title and the
\* second presentation
C22_Witness ==
    /\ BulletsComputed
    /\ args.content = ExampleContent
    /\ args.title = <<"U">>
    /\ slides_manager # NoManager
    /\ args.presentation_name = "deck2"
    /\ Len(bullet_requests) = 3

(***************************************************************************)
(* C23 - short ids of slides                                               *)
(***************************************************************************)
\* the prefixes of the slide kinds
SlideKinds == {"title", "section", "content", "twocol", "table", "img"}

\* C23 as stated: the id requested by a slide-creation call differs from the
\* id requested by every other slide-creation call on the same presentation,
\* of whatever kind and title, the same kind and an equal title included.
C23_ShortIdsUnique ==
    slide_id # None =>
        \A kind \in SlideKinds, title \in Titles : CreateShortId(kind, title) # slide_id

(***************************************************************************)
(* C24 - only the last created name is known                               *)
(***************************************************************************)
\* create_presentation is about to return its confirmation
CreateSucceeds ==
    /\ args.tool = "create_presentation"
    /\ pc = "cp_wait_create"
    /\ result'.status = "ok"

\* a successful create_presentation leaves the new name alone in the table,
\* and no other step changes the names of the table
OnlyCreateNames ==
    /\ CreateSucceeds => DOMAIN TableOf(slides_manager') = {args.presentation_name}
    /\ DOMAIN TableOf(slides_manager') # DOMAIN TableOf(slides_manager) => CreateSucceeds

\* every finished call on a name that is not in the table reports 'not found'
OtherNameNotFound ==
    (NameNotInTable /\ pc = "done") =>
        /\ result.status = "error"
        /\ result.detail = NotFoundMessage

\* a finished call on a name that is not in the table ends with an error and
\* without a remote call; the error is 'not found' unless a check the tool
\* makes before the lookup (its other inputs, the rendering) failed first
OtherNameRefused ==
    (NameNotInTable /\ pc = "done") =>
        /\ result.status = "error"
        /\ remote_log = <<>>
        /\ result.detail # NotFoundMessage =>
               \/ OwnInputRejected
               \/ args.tool \in RenderingTools /\ result.detail \in RenderErrors
        /\ args.tool \notin (RenderingTools \cup {"add_table_slide"}) =>
               result.detail = NotFoundMessage

\* C24 as stated: at most one name is in the table, each successful
\* create_presentation leaves only the new name, and every later call on
\* another name reports that the name was not found.
C24_Original ==
    /\ [](Cardinality(DOMAIN TableOf(slides_manager)) <= 1 /\ OtherNameNotFound)
    /\ [][OnlyCreateNames]_vars

\* C24 (amended): at most one name is resolvable at any time, and each
\* successful create_presentation leaves a table that holds the new name and
\* nothing else, whatever it held before; nothing else puts a name into the
\* table; a later call on any other name fails without a remote call, with
\* 'not found' unless an earlier check of the tool failed first.
C24_OnlyLastNameKnown ==
    /\ [](Cardinality(DOMAIN TableOf(slides_manager)) <= 1 /\ OtherNameRefused)
    /\ [][OnlyCreateNames]_vars

\* under the table of deck2 the URL of deck1 is asked for and not found
C24_Witness ==
    /\ args.tool = "get_presentation_url"
    /\ pc = "done"
    /\ DOMAIN TableOf(slides_manager) = {"deck2"}
    /\ args.presentation_name = "deck1"
    /\ result.detail = NotFoundMessage

(***************************************************************************)
(* C25 - a failed create_presentation changes nothing                      *)
(***************************************************************************)
\* a step of a create_presentation invocation other than its successful return
CreateStepWithoutSuccess ==
    /\ args'.tool = "create_presentation"
    /\ ~(pc = "cp_wait_create" /\ result'.status = "ok")

\* C25: when create_presentation fails, because the credentials cannot be
\* loaded or because the remote create call fails, the global manager and its
\* table are after the call exactly what they were before it: no step of the
\* invocation touches them, so every name resolves to the same id as before.
C25_FailedCreateKeepsManager ==
    [][CreateStepWithoutSuccess => slides_manager' = slides_manager]_vars

\* the remote create call has failed while deck1 was registered
C25_Witness ==
    /\ args.tool = "create_presentation"
    /\ pc = "done"
    /\ result.status = "error"
    /\ remote_log # <<>>
    /\ remote_log[1].status = "failed"
    /\ DOMAIN TableOf(slides_manager) = {"deck1"}
    /\ args.presentation_name = "deck2"

(***************************************************************************)
(* C26 - only create_presentation writes the manager                       *)
(***************************************************************************)
\* the edit URL of each presentation id
EditUrl ==
    [id \in PresentationIds |->
        IF id = "pres_A" THEN "https://docs.google.com/presentation/d/pres_A/edit"
        ELSE "https://docs.google.com/presentation/d/pres_B/edit"]

\* get_presentation_url issues no remote call, and for a registered name it
\* returns the edit URL of the id registered under that name
UrlFromTable ==
    args.tool = "get_presentation_url" =>
        /\ remote_log = <<>>
        /\ (pc = "done" /\ args.presentation_name \in DOMAIN TableOf(slides_manager)) =>
              /\ result.status = "ok"
              /\ result.prefix = "Presentation URL: "
              /\ result.detail = EditUrl[TableOf(slides_manager)[args.presentation_name]]

\* C26: the global manager and its table change only in the step in which
\* create_presentation returns successfully; every step of every other tool,
\* succeeding or failing, leaves them as they are, and get_presentation_url
\* answers from the table without any remote call.
C26_OnlyCreateWritesManager ==
    /\ []UrlFromTable
    /\ [][slides_manager' # slides_manager =>
            (args.tool = "create_presentation" /\ pc = "cp_wait_create"
               /\ result'.status = "ok")]_vars

\* the URL of deck2, registered as pres_B, has been returned
C26_Witness ==
    /\ args.tool = "get_presentation_url"
    /\ pc = "done"
    /\ args.presentation_name = "deck2"
    /\ TableOf(slides_manager) = [n \in {"deck2"} |-> "pres_B"]
    /\ result.detail = EditUrl["pres_B"]

(***************************************************************************)
(* C27 - nothing works before the first presentation                       *)
(***************************************************************************)
\* the tools that test the global manager themselves
ManagerTools ==
    {"add_title_slide", "add_section_header", "add_content_slide",
     "add_two_column_slide", "add_table_slide", "get_presentation_url",
     "create_bar_chart", "create_line_plot", "create_pie_chart",
     "create_scatter_plot", "create_heatmap", "create_histogram",
     "create_scatter_matrix", "apply_theme_from_presentation",
     "apply_beautiful_styling", "apply_theme_by_name", "list_available_themes"}

\* C27: while no create_presentation has succeeded there is no manager, and
\* every call of a tool that works through the manager ends at once with the
\* tool's prefix followed by 'No active slides manager. Create a presentation
\* first.' and without a remote call, whatever its other arguments are
\* (invalid tables and lists of different lengths included).
C27_NoManagerNoWork ==
    (slides_manager = NoManager /\ args.tool \in ManagerTools) =>
        /\ pc = "done"
        /\ remote_log = <<>>
        /\ result.status = "error"
        /\ result.prefix = FixedPrefix(args.tool)
        /\ result.detail = NoManagerMessage
        /\ DOMAIN result = {"status", "prefix", "detail"}

\* a bar chart with lists of different lengths is refused for the manager
C27_Witness ==
    /\ slides_manager = NoManager
    /\ args.tool = "create_bar_chart"
    /\ pc = "done"
    /\ Len(args.categories) # Len(args.values)
    /\ result.detail = NoManagerMessage

(***************************************************************************)
(* C28 - ranges lie inside the inserted text                               *)
(***************************************************************************)
\* a call of the log has inserted the text into the placeholder oid
Inserted(oid, text) ==
    \E i \in 1..Len(remote_log) : InsertsInto(remote_log[i], oid, text)

\* C28: every bullet range the loop has emitted, during the loop and after it,
\* addresses the placeholder into which the same call inserted the content,
\* and satisfies 0 <= start < end <= len(content).
C28_RangesInsideText ==
    \A k \in 1..Len(bullet_requests) :
        /\ Inserted(bullet_requests[k].createParagraphBullets.objectId, args.content)
        /\ 0 <= StartOf(bullet_requests[k])
        /\ StartOf(bullet_requests[k]) < EndOf(bullet_requests[k])
        /\ EndOf(bullet_requests[k]) <= Len(args.content)

\* the last range of a content of full length ends at the end of the text
C28_Witness ==
    /\ BulletsComputed
    /\ Len(args.content) = MaxLen
    /\ Len(bullet_requests) >= 2
    /\ EndOf(bullet_requests[Len(bullet_requests)]) = Len(args.content)

(***************************************************************************)
(* C29 - the cells of the table                                            *)
(***************************************************************************)
\* the request edits one cell of a table
IsCellEdit(r) ==
    \/ IsInsertText(r) /\ "cellLocation" \in DOMAIN r.insertText
    \/ "updateTextStyle" \in DOMAIN r

\* the cell a cell edit addresses
CellOf(r) ==
    IF IsInsertText(r) THEN r.insertText.cellLocation
    ELSE r.updateTextStyle.cellLocation

\* the cell edits of a call
CellEdits(c) == {c.requests[k] : k \in {n \in 1..Len(c.requests) : IsCellEdit(c.requests[n])}}

\* the createTable requests of a call
TablesOf(c) ==
    {c.requests[k].createTable :
        k \in {n \in 1..Len(c.requests) : "createTable" \in DOMAIN c.requests[n]}}

\* the call writes into the header row, or into a data row
IsHeaderBatch(c) == \E r \in CellEdits(c) : CellOf(r).rowIndex = 0
IsDataBatch(c) == \E r \in CellEdits(c) : CellOf(r).rowIndex >= 1

\* the call writes text into the cell (row, col)
WritesCell(c, row, col, text) ==
    \E r \in CellEdits(c) :
        /\ IsInsertText(r)
        /\ CellOf(r) = [rowIndex |-> row, columnIndex |-> col]
        /\ r.insertText.text = text

\* C29: in an add_table_slide invocation whose data passed validation, the
\* createTable request asks for len(rows)+1 rows and len(headers) columns;
\* every cell edit follows a completed createTable of the same invocation and
\* addresses a cell inside that table; the header batch writes header i to
\* cell (0, i) and nothing below row 0; the data batch follows a completed
\* header batch and writes cell j of row i to (i+1, j) and nothing into row
\* 0; a confirmation is returned only after all three were issued.
C29_TableCells ==
    args.tool = "add_table_slide" =>
        LET headers == args.data.headers
            rows == args.data.rows
            log == remote_log
        IN  /\ \A j \in 1..Len(log) :
                  /\ \A t \in TablesOf(log[j]) :
                        /\ t.rows = Len(rows) + 1
                        /\ t.columns = Len(headers)
                  /\ \A r \in CellEdits(log[j]) :
                        /\ \E i \in 1..(j - 1) :
                              /\ log[i].status = "ok"
                              /\ \E t \in TablesOf(log[i]) :
                                    /\ t.objectId = (IF IsInsertText(r)
                                                     THEN r.insertText.objectId
                                                     ELSE r.updateTextStyle.objectId)
                                    /\ CellOf(r).rowIndex \in 0..(t.rows - 1)
                                    /\ CellOf(r).columnIndex \in 0..(t.columns - 1)
                        /\ IsInsertText(r) =>
                              r.insertText.text =
                                  IF CellOf(r).rowIndex = 0
                                  THEN headers[CellOf(r).columnIndex + 1]
                                  ELSE rows[CellOf(r).rowIndex][CellOf(r).columnIndex + 1]
                  /\ IsHeaderBatch(log[j]) =>
                        /\ ~IsDataBatch(log[j])
                        /\ \A i \in 1..Len(headers) :
                              WritesCell(log[j], 0, i - 1, headers[i])
                  /\ IsDataBatch(log[j]) =>
                        /\ \E i \in 1..(j - 1) :
                              IsHeaderBatch(log[i]) /\ log[i].status = "ok"
                        /\ \A i \in 1..Len(rows) : \A k \in 1..Len(rows[i]) :
                              WritesCell(log[j], i, k - 1, rows[i][k])
            /\ (pc = "done" /\ result.status = "ok") =>
                  \E a, b, c \in 1..Len(log) :
                      /\ a < b /\ b < c
                      /\ TablesOf(log[a]) # {}
                      /\ IsHeaderBatch(log[b])
                      /\ IsDataBatch(log[c])

\* a table of two headers and two rows has been written completely
C29_Witness ==
    /\ args.tool = "add_table_slide"
    /\ pc = "done"
    /\ result.status = "ok"
    /\ Len(args.data.headers) = 2
    /\ Len(args.data.rows) = 2
    /\ WritesCell(remote_log[Len(remote_log)], 2, 1, Cell)

(***************************************************************************)
(* C30 - themes without a usable source                                    *)
(***************************************************************************)
ThemeTools == {"apply_theme_from_presentation", "apply_theme_by_name"}

\* the batch updates and the reads of a source in the log of the invocation
BatchCalls == {j \in 1..Len(remote_log) : remote_log[j].api = "presentations.batchUpdate"}
SourceReads == {j \in 1..Len(remote_log) : remote_log[j].api = "presentations.get"}

\* the reply for the source came without the key 'masters'
SourceWithoutMasters ==
    source_presentation # <<>> /\ ~source_presentation[1].has_masters

\* the reply for the source came with the key 'masters'
SourceWithMasters ==
    source_presentation # <<>> /\ source_presentation[1].has_masters

\* the masters of the reply
MastersRead == source_presentation[1].masters

\* the search of the storage returned no file
NoFileFound == files = <<<<>>>>

FailsWithoutBatch ==
    /\ pc = "done"
    /\ result.status = "error"
    /\ BatchCalls = {}

\* exactly one batch is in the log, with one request per master of the reply
OneBatchPerMasters ==
    /\ Cardinality(BatchCalls) = 1
    /\ \A j \in BatchCalls :
          /\ Len(remote_log[j].requests) = Len(MastersRead)
          /\ \A k \in 1..Len(remote_log[j].requests) :
                "replaceAllShapesWithImage" \in DOMAIN remote_log[j].requests[k]

\* C30 as stated: without masters, or without a file found, the tool fails
\* and no batch is issued (and no source is read when no file is found); in
\* the other case, a source with masters, exactly one batch with one request
\* per master is issued.
C30_Original ==
    args.tool \in ThemeTools =>
        /\ SourceWithoutMasters => FailsWithoutBatch
        /\ NoFileFound => (FailsWithoutBatch /\ SourceReads = {})
        /\ SourceWithMasters => OneBatchPerMasters

\* C30: a theme tool issues a batch only after a reply for the source that
\* holds at least one master, and then exactly one batch with one request per
\* master; a reply without the key 'masters' makes the tool fail without a
\* batch; an empty search makes apply_theme_by_name fail without a read of a
\* source and without a batch; a reply with an empty list of masters ends
\* the tool with its confirmation and without a batch.
C30_ThemeNeedsMasters ==
    args.tool \in ThemeTools =>
        /\ SourceWithoutMasters => FailsWithoutBatch
        /\ NoFileFound => (FailsWithoutBatch /\ SourceReads = {})
        /\ (SourceWithMasters /\ MastersRead # <<>>) => OneBatchPerMasters
        /\ (SourceWithMasters /\ MastersRead = <<>>) =>
              /\ BatchCalls = {}
              /\ pc = "done"
              /\ result.status = "ok"
        /\ BatchCalls # {} => (SourceWithMasters /\ MastersRead # <<>>)

\* the theme found by name had two masters and one batch of two requests
\* replaced them
C30_Witness ==
    /\ args.tool = "apply_theme_by_name"
    /\ pc = "done"
    /\ result.status = "ok"
    /\ files # <<>> /\ files[1] # <<>>
    /\ SourceWithMasters
    /\ Len(MastersRead) = 2
    /\ OneBatchPerMasters

====
